---- MODULE Spec2Model ----
(***************************************************************************)
(* Language Enforcer, terminal client (tui/src/main.rs).                   *)
(*                                                                         *)
(* The live translation-suggestion engine of the add-word form: the UI     *)
(* loop's key handlers, the periodic tick (App::process_translation), the  *)
(* background translation threads and the mpsc channel that carries their  *)
(* outcomes back to the UI loop.                                           *)
(*                                                                         *)
(* Strings are sequences of one-character strings.  Option<T> is a         *)
(* sequence of length 0 (None) or 1 (Some).  Instants are milliseconds     *)
(* since the session started.                                              *)
(***************************************************************************)
EXTENDS Integers, Sequences, FiniteSets, Bags, TLC

\* ------------------------------------------------------------- constants

TICK_MS == 100

TRANSLATE_DEBOUNCE_MS == 400

\* ---------------------------------------------------------------- bounds

\* longest text a user types into an input of the add-word form
MaxLen == 1

\* the clock stops after this many quanta
MaxTime == 2

\* requests are counted up to this number
MaxRequests == 2

\* the clock of the liveness specification stops after this many quanta
LiveMaxTime == 1

\* the clock advances by one debounce interval at a time
Quantum == TRANSLATE_DEBOUNCE_MS

\* characters a user can type
Chars == {"a", " "}

\* texts the translation service can answer with
Translations == {<<"a", "a">>}

\* failure reasons of the translation service
Errors == {<<"e">>}

Fields == {"Dutch", "English"}

\* --------------------------------------------------------------- options

None == <<>>

Some(v) == <<v>>

IsSome(o) == o # None

Unwrap(o) == o[1]

\* --------------------------------------------------------------- strings

IsWhitespace(c) == c = " "

RECURSIVE TrimStart(_)
TrimStart(s) ==
    IF s # <<>> /\ IsWhitespace(Head(s)) THEN TrimStart(Tail(s)) ELSE s

RECURSIVE TrimEnd(_)
TrimEnd(s) ==
    IF s # <<>> /\ IsWhitespace(s[Len(s)])
    THEN TrimEnd(SubSeq(s, 1, Len(s) - 1))
    ELSE s

\* str::trim
Trim(s) == TrimEnd(TrimStart(s))

\* String::pop: removes the last character, if there is one
Pop(s) == IF s = <<>> THEN s ELSE SubSeq(s, 1, Len(s) - 1)

\* ----------------------------------------------------------------- state

VARIABLES
    mode,                            \* App.mode
    dutch_input,                     \* App.dutch_input
    english_input,                   \* App.english_input
    add_field,                       \* App.add_field
    message,                         \* App.message
    translation_api,                 \* App.translation_api is Some
    translation_in_flight,           \* App.translation_in_flight
    pending_translation,             \* App.pending_translation
    last_edit_field,                 \* App.last_edit_field
    last_edit_dutch_at,              \* App.last_edit_dutch_at
    last_edit_english_at,            \* App.last_edit_english_at
    last_translated_dutch_source,    \* App.last_translated_dutch_source
    last_translated_english_source,  \* App.last_translated_english_source
    translation_rx,                  \* outcomes sent and not yet received
    threads,                         \* bag of translation threads still running
    now,                             \* Instant::now()
    drained,                         \* outcomes received by the tick that just ran
    burst,                           \* requests dispatched, while the session is one burst of edits of one field
    failed,                          \* fields with a failure drained since the last edit
    suggested,                       \* fields whose suggestion was applied since the last key
    session,                         \* what run_app returned, once it has
    entered,                         \* the last Enter of the add-word form: the state before and after
    items,                           \* import_from_image: items
    index,                           \* import_from_image: index
    translations,                    \* import_from_image: translations of the chunk at index
    pos,                             \* pairs of the chunk the for loop has been through
    inserted,                        \* import_from_image: inserted
    skipped,                         \* import_from_image: skipped
    store,                           \* the rows of the words table, in insertion order
    chapter,                         \* import_from_image: chapter
    import_pc,                       \* where import_from_image stands; "ended" once run_app returned
    returned,                        \* what import_from_image returned
    calls,                           \* the texts of each translation call made, in call order
    paired,                          \* the (item, translation) pairs the for loop has been through
    ocr_lines,                       \* parse_grouped_items: lines
    initial_group,                   \* parse_grouped_items: initial_group
    median_height,                   \* parse_grouped_items: median_height
    columns,                         \* parse_grouped_items: columns
    parsed,                          \* what parse_grouped_items returned
    origins,                         \* per item of parsed: the line it came from
    text_in,                         \* normalize_item_text: text
    text_out,                        \* what normalize_item_text returned, call after call
    entry_in,                        \* is_heading: entry
    median_in,                       \* is_heading: median_height
    heading_out,                     \* what is_heading returned
    card,                            \* schedule_sm2: card
    reviews,                         \* calls of schedule_sm2 made on card
    graded,                          \* the last call of schedule_sm2: the card before, grade, now and what it returned
    db,                              \* the reviews, cards and words tables, by word id
    review_list,                     \* App.review_list
    review_list_selection,           \* App.review_list_selection
    review_list_collapsed,           \* App.review_list_collapsed
    confirm_action,                  \* App.confirm_action
    confirm_message,                 \* App.confirm_message
    requested,                       \* the delete request the Confirm view on screen was opened for
    pressed,                         \* the last key: the key and the state it was handled in
    local,                           \* the words, cards and reviews tables of the local store, by id
    queue,                           \* ReviewState.queue
    clock,                           \* Utc::now(), in days: the day the app is running on
    inflight,                        \* per command slot: the command running in it and its locals
    served,                          \* the cards next_due_card returned since the last start_session
    fresh,                           \* start_session has just returned Ok
    finished,                        \* the last command that returned: which, on what, with what
    sessions,                        \* calls of start_session made
    gradings,                        \* calls of grade_card made
    failures,                        \* statements of the review session the database has failed
    tx,                              \* the tables as the open transaction sees them
    snapshot,                        \* refresh: the rows to load
    refresh_pc,                      \* where the refresh stands
    at_call                          \* the tables and the queue when the refresh was called

appVars ==
    <<mode, dutch_input, english_input, add_field, message, translation_api,
      translation_in_flight, pending_translation, last_edit_field,
      last_edit_dutch_at, last_edit_english_at, last_translated_dutch_source,
      last_translated_english_source>>

\* the state of an import
importVars ==
    <<items, index, translations, pos, inserted, skipped, store, chapter,
      import_pc, returned, calls, paired>>

\* the state of a call of parse_grouped_items
parseVars ==
    <<ocr_lines, initial_group, median_height, columns, parsed, origins>>

\* the state of a card under review
coreVars == <<card, reviews, graded>>

\* the state of the parts added to the form, the import and the parser
\* the state of the review list and the Confirm view
confirmVars ==
    <<db, review_list, review_list_selection, review_list_collapsed,
      confirm_action, confirm_message, requested, pressed>>

\* the state of the review session of the GUI
sessionVars ==
    <<local, queue, clock, inflight, served, fresh, finished, sessions,
      gradings, failures>>

\* the state of a refresh of the local store
refreshVars == <<tx, snapshot, refresh_pc, at_call>>

restVars == <<coreVars, confirmVars, sessionVars, refreshVars>>

\* the state of a call of normalize_item_text and of is_heading
callVars == <<text_in, text_out, entry_in, median_in, heading_out, restVars>>

vars ==
    <<mode, dutch_input, english_input, add_field, message, translation_api,
      translation_in_flight, pending_translation, last_edit_field,
      last_edit_dutch_at, last_edit_english_at, last_translated_dutch_source,
      last_translated_english_source, translation_rx, threads, now, drained,
      burst, failed, suggested, session, entered, importVars, parseVars,
      callVars>>

\* ------------------------------------------------------------ directions

\* the field a direction translates from
SourceField(direction) ==
    IF direction = "DutchToEnglish" THEN "Dutch" ELSE "English"

\* the field a direction writes its suggestion into
TargetField(direction) ==
    IF direction = "DutchToEnglish" THEN "English" ELSE "Dutch"

\* the direction process_translation picks for the last edited field
DirectionOf(field) ==
    IF field = "Dutch" THEN "DutchToEnglish" ELSE "EnglishToDutch"

\* ------------------------------------------------ the part of App a tick uses

App ==
    [ dutch_input |-> dutch_input,
      english_input |-> english_input,
      message |-> message,
      translation_in_flight |-> translation_in_flight,
      pending_translation |-> pending_translation,
      last_edit_dutch_at |-> last_edit_dutch_at,
      last_edit_english_at |-> last_edit_english_at,
      last_translated_dutch_source |-> last_translated_dutch_source,
      last_translated_english_source |-> last_translated_english_source ]

InputOf(app, field) ==
    IF field = "Dutch" THEN app.dutch_input ELSE app.english_input

LastEditAt(app, field) ==
    IF field = "Dutch" THEN app.last_edit_dutch_at ELSE app.last_edit_english_at

LastTranslated(app, field) ==
    IF field = "Dutch"
    THEN app.last_translated_dutch_source
    ELSE app.last_translated_english_source

\* ------------------------------------------------ apply_translation_result

\* ResultBranch without the comparison of direction and source text
ResultBranchUncorrelated(app, result) ==
    IF app.pending_translation = None THEN "no_pending"
    ELSE LET pending == Unwrap(app.pending_translation)
             edited_at == LastEditAt(app, TargetField(result.direction))
             target_was_edited ==
                 IF IsSome(edited_at)
                 THEN Unwrap(edited_at) > pending.started_at
                 ELSE FALSE
             current_source ==
                 Trim(InputOf(app, SourceField(result.direction)))
         IN  IF target_was_edited THEN "target_edited"
             ELSE IF current_source # pending.source_text THEN "source_changed"
             ELSE IF result.result.ok THEN "applied"
             ELSE "failed"

\* ResultBranch looking at the last edit of the source field, not the target
ResultBranchSourceEdit(app, result) ==
    IF app.pending_translation = None THEN "no_pending"
    ELSE LET pending == Unwrap(app.pending_translation)
             edited_at == LastEditAt(app, SourceField(result.direction))
             target_was_edited ==
                 IF IsSome(edited_at)
                 THEN Unwrap(edited_at) > pending.started_at
                 ELSE FALSE
             current_source ==
                 Trim(InputOf(app, SourceField(result.direction)))
         IN  IF \/ pending.direction # result.direction
                \/ pending.source_text # result.source_text
             THEN "mismatch"
             ELSE IF target_was_edited THEN "target_edited"
             ELSE IF current_source # pending.source_text THEN "source_changed"
             ELSE IF result.result.ok THEN "applied"
             ELSE "failed"

\* ResultBranch without the comparison of the live source text
ResultBranchStaleSource(app, result) ==
    IF app.pending_translation = None THEN "no_pending"
    ELSE LET pending == Unwrap(app.pending_translation)
             edited_at == LastEditAt(app, TargetField(result.direction))
             target_was_edited ==
                 IF IsSome(edited_at)
                 THEN Unwrap(edited_at) > pending.started_at
                 ELSE FALSE
         IN  IF \/ pending.direction # result.direction
                \/ pending.source_text # result.source_text
             THEN "mismatch"
             ELSE IF target_was_edited THEN "target_edited"
             ELSE IF result.result.ok THEN "applied"
             ELSE "failed"

\* the early return, or the arm of the final match, that a result takes
ResultBranch(app, result) ==
    IF app.pending_translation = None THEN "no_pending"
    ELSE LET pending == Unwrap(app.pending_translation)
             edited_at == LastEditAt(app, TargetField(result.direction))
             target_was_edited ==
                 IF IsSome(edited_at)
                 THEN Unwrap(edited_at) > pending.started_at
                 ELSE FALSE
             current_source ==
                 Trim(InputOf(app, SourceField(result.direction)))
         IN  IF \/ pending.direction # result.direction
                \/ pending.source_text # result.source_text
             THEN "mismatch"
             ELSE IF target_was_edited THEN "target_edited"
             ELSE IF current_source # pending.source_text THEN "source_changed"
             ELSE IF result.result.ok THEN "applied"
             ELSE "failed"

\* the Err arm recording the source as translated, as the Ok arm does
SurfaceFailureRecorded(taken, result) ==
    IF result.direction = "DutchToEnglish"
    THEN [taken EXCEPT !.message = Some("Translation failed"),
                       !.last_translated_dutch_source = Some(result.source_text)]
    ELSE [taken EXCEPT !.message = Some("Translation failed"),
                       !.last_translated_english_source = Some(result.source_text)]

\* the Err arm of the final match
SurfaceFailure(taken, result) ==
    [taken EXCEPT !.message = Some("Translation failed")]

apply_translation_result(app, result) ==
    LET branch == ResultBranch(app, result)
        taken == [app EXCEPT !.pending_translation = None]
    IN  CASE branch = "no_pending" -> app
          [] branch = "applied" /\ result.direction = "DutchToEnglish" ->
                [taken EXCEPT
                    !.english_input = result.result.value,
                    !.last_translated_dutch_source =
                        Some(Unwrap(app.pending_translation).source_text)]
          [] branch = "applied" /\ result.direction = "EnglishToDutch" ->
                [taken EXCEPT
                    !.dutch_input = result.result.value,
                    !.last_translated_english_source =
                        Some(Unwrap(app.pending_translation).source_text)]
          [] branch = "failed" -> SurfaceFailure(taken, result)
          [] OTHER -> taken

\* ----------------------------------------------------- process_translation

\* the Ok(result) arm leaving translation_in_flight as it is
ReceiveOneKeepsFlag(app, result) == apply_translation_result(app, result)

\* one Ok(result) arm of the try_recv loop
ReceiveOne(app, result) ==
    apply_translation_result([app EXCEPT !.translation_in_flight = FALSE], result)

\* the try_recv loop: one entry per received result, in channel order
RECURSIVE DrainLoop(_, _)
DrainLoop(app, rx) ==
    IF rx = <<>> THEN <<>>
    ELSE LET after == ReceiveOne(app, Head(rx))
         IN  << [ result |-> Head(rx),
                  branch |-> ResultBranch(
                      [app EXCEPT !.translation_in_flight = FALSE], Head(rx)),
                  before |-> app,
                  after |-> after ] >>
             \o DrainLoop(after, Tail(rx))

\* the App when the try_recv loop breaks
AfterDrain(app, rx) ==
    LET log == DrainLoop(app, rx)
    IN  IF log = <<>> THEN app ELSE log[Len(log)].after

\* ShouldDispatch waiting for more than the debounce interval
ShouldDispatchLate(app, api, m, edit_field, t) ==
    /\ ~(app.translation_in_flight \/ ~api \/ m # "AddWord")
    /\ IsSome(edit_field)
    /\ IsSome(LastEditAt(app, Unwrap(edit_field)))
    /\ ~(t - Unwrap(LastEditAt(app, Unwrap(edit_field))) <= TRANSLATE_DEBOUNCE_MS)
    /\ Trim(InputOf(app, Unwrap(edit_field))) # <<>>
    /\ LastTranslated(app, Unwrap(edit_field))
           # Some(Trim(InputOf(app, Unwrap(edit_field))))

\* ShouldDispatch without the debounce
ShouldDispatchAtOnce(app, api, m, edit_field, t) ==
    /\ ~(app.translation_in_flight \/ ~api \/ m # "AddWord")
    /\ IsSome(edit_field)
    /\ IsSome(LastEditAt(app, Unwrap(edit_field)))
    /\ Trim(InputOf(app, Unwrap(edit_field))) # <<>>
    /\ LastTranslated(app, Unwrap(edit_field))
           # Some(Trim(InputOf(app, Unwrap(edit_field))))

\* the guards between the loop and the spawn: none of them returns
ShouldDispatch(app, api, m, edit_field, t) ==
    /\ ~(app.translation_in_flight \/ ~api \/ m # "AddWord")
    /\ IsSome(edit_field)
    /\ IsSome(LastEditAt(app, Unwrap(edit_field)))
    /\ ~(t - Unwrap(LastEditAt(app, Unwrap(edit_field))) < TRANSLATE_DEBOUNCE_MS)
    /\ Trim(InputOf(app, Unwrap(edit_field))) # <<>>
    /\ LastTranslated(app, Unwrap(edit_field))
           # Some(Trim(InputOf(app, Unwrap(edit_field))))

\* the PendingTranslation a dispatch registers
NewRequest(app, edit_field, t) ==
    [ direction |-> DirectionOf(Unwrap(edit_field)),
      source_text |-> Trim(InputOf(app, Unwrap(edit_field))),
      started_at |-> t ]

\* what the spawned thread captures; its started_at goes into the result
\* and no receiver reads it there, so it is left out
Spawned(request) ==
    [ direction |-> request.direction, source_text |-> request.source_text ]

\* a request is counted while the session is one burst of edits, up to MaxRequests
Bump(b) ==
    IF IsSome(b) /\ Unwrap(b) < MaxRequests THEN Some(Unwrap(b) + 1) ELSE b

\* fields whose request's failure was surfaced by the loop
FailedIn(log) ==
    { SourceField(log[i].result.direction) :
        i \in { j \in 1..Len(log) : log[j].branch = "failed" } }

\* fields whose request's translation was written into the other field by
\* the loop
AppliedIn(log) ==
    { SourceField(log[i].result.direction) :
        i \in { j \in 1..Len(log) : log[j].branch = "applied" } }

\* App::process_translation: the log of the try_recv loop, the App after it,
\* and the request spawned, if one is
process_translation(app, rx, api, m, edit_field, t) ==
    LET log == DrainLoop(app, rx)
        after == AfterDrain(app, rx)
        go == ShouldDispatch(after, api, m, edit_field, t)
    IN  [ log |-> log,
          app |-> IF go
                  THEN [after EXCEPT
                           !.translation_in_flight = TRUE,
                           !.pending_translation =
                               Some(NewRequest(after, edit_field, t))]
                  ELSE after,
          spawned |-> IF go
                      THEN Some(Spawned(NewRequest(after, edit_field, t)))
                      ELSE None ]

\* what process_translation does when called in the current state
TickOutcome ==
    process_translation(App, translation_rx, translation_api, mode,
                        last_edit_field, now)

\* App::tick
Tick ==
    \E done \in { TickOutcome } :
        /\ translation_rx' = <<>>
        /\ drained' = done.log
        /\ dutch_input' = done.app.dutch_input
        /\ english_input' = done.app.english_input
        /\ message' = done.app.message
        /\ last_translated_dutch_source' = done.app.last_translated_dutch_source
        /\ last_translated_english_source' =
               done.app.last_translated_english_source
        /\ translation_in_flight' = done.app.translation_in_flight
        /\ pending_translation' = done.app.pending_translation
        /\ threads' = IF IsSome(done.spawned)
                      THEN threads (+) SetToBag({Unwrap(done.spawned)})
                      ELSE threads
        /\ burst' = IF IsSome(done.spawned) THEN Bump(burst) ELSE burst
        /\ failed' = failed \cup FailedIn(done.log)
        /\ suggested' = suggested \cup AppliedIn(done.log)
        /\ UNCHANGED <<mode, add_field, translation_api, last_edit_field,
                       last_edit_dutch_at, last_edit_english_at, now>>
        /\ UNCHANGED <<session, entered, importVars, parseVars, callVars>>

\* the spawned thread: translate_via_api returns and the outcome is sent
ThreadDone ==
    \E t \in BagToSet(threads) :
        \E outcome \in
            { [ok |-> TRUE, value |-> v] : v \in Translations }
            \cup { [ok |-> FALSE, value |-> e] : e \in Errors } :
            /\ threads' = threads (-) SetToBag({t})
            /\ translation_rx' =
                   Append(translation_rx,
                          [ direction |-> t.direction,
                            source_text |-> t.source_text,
                            result |-> outcome ])
            /\ drained' = <<>>
            /\ UNCHANGED <<appVars, now, burst, failed, suggested>>
            /\ UNCHANGED <<session, entered, importVars, parseVars, callVars>>

\* time passes
Advance ==
    /\ now + Quantum <= MaxTime * Quantum
    /\ now' = now + Quantum
    /\ drained' = <<>>
    /\ UNCHANGED <<appVars, translation_rx, threads, burst, failed, suggested>>
    /\ UNCHANGED <<session, entered, importVars, parseVars, callVars>>

\* time passes, up to the horizon of the liveness specification
LiveAdvance == now < LiveMaxTime * Quantum /\ Advance

\* ------------------------------------------------------------ App methods

mark_edit(field) ==
    /\ last_edit_field' = Some(field)
    /\ IF field = "Dutch"
       THEN /\ last_edit_dutch_at' = Some(now)
            /\ UNCHANGED last_edit_english_at
       ELSE /\ last_edit_english_at' = Some(now)
            /\ UNCHANGED last_edit_dutch_at

reset_translation_state ==
    /\ translation_in_flight' = FALSE
    /\ pending_translation' = None
    /\ last_edit_field' = None
    /\ last_edit_dutch_at' = None
    /\ last_edit_english_at' = None
    /\ last_translated_dutch_source' = None
    /\ last_translated_english_source' = None

active_input == IF add_field = "Dutch" THEN dutch_input ELSE english_input

inactive_input == IF add_field = "Dutch" THEN english_input ELSE dutch_input

\* assigns the active input, leaves the other one
SetActiveInput(s) ==
    IF add_field = "Dutch"
    THEN dutch_input' = s /\ UNCHANGED english_input
    ELSE english_input' = s /\ UNCHANGED dutch_input

\* the edit continues a burst: same field, less than the debounce after the last
ContinuesBurst ==
    \/ last_edit_field = None
    \/ /\ Unwrap(last_edit_field) = add_field
       /\ now - Unwrap(LastEditAt(App, add_field)) < TRANSLATE_DEBOUNCE_MS

\* ----------------------------------------------------------- handle_add_key

\* KeyCode::Char(ch): push_add_char
KeyChar ==
    \E ch \in Chars :
        /\ mode = "AddWord"
        /\ Len(active_input) < MaxLen
        /\ SetActiveInput(Append(active_input, ch))
        /\ mark_edit(add_field)
        /\ burst' = IF ContinuesBurst THEN burst ELSE None
        /\ failed' = {}
        /\ suggested' = {}
        /\ drained' = <<>>
        /\ UNCHANGED <<mode, add_field, message, translation_api,
                       translation_in_flight, pending_translation,
                       last_translated_dutch_source,
                       last_translated_english_source, translation_rx,
                       threads, now>>
        /\ UNCHANGED <<session, entered, importVars, parseVars, callVars>>

\* KeyCode::Backspace: pop_add_char
KeyBackspace ==
    /\ mode = "AddWord"
    /\ SetActiveInput(Pop(active_input))
    /\ mark_edit(add_field)
    /\ burst' = IF ContinuesBurst THEN burst ELSE None
    /\ failed' = {}
    /\ suggested' = {}
    /\ drained' = <<>>
    /\ UNCHANGED <<mode, add_field, message, translation_api,
                   translation_in_flight, pending_translation,
                   last_translated_dutch_source,
                   last_translated_english_source, translation_rx,
                   threads, now>>
    /\ UNCHANGED <<session, entered, importVars, parseVars, callVars>>

\* KeyCode::Esc: reset_add_fields
KeyEsc ==
    /\ mode = "AddWord"
    /\ dutch_input' = <<>>
    /\ english_input' = <<>>
    /\ message' = None
    /\ reset_translation_state
    /\ burst' = None
    /\ failed' = {}
    /\ suggested' = {}
    /\ drained' = <<>>
    /\ UNCHANGED <<mode, add_field, translation_api, translation_rx, threads,
                   now>>
    /\ UNCHANGED <<session, entered, importVars, parseVars, callVars>>

\* KeyCode::Tab handled as the keys that clear the engine's bookkeeping are
KeyTabResets ==
    /\ mode = "AddWord"
    /\ add_field' = IF add_field = "Dutch" THEN "English" ELSE "Dutch"
    /\ reset_translation_state
    /\ burst' = None
    /\ drained' = <<>>
    /\ UNCHANGED <<mode, dutch_input, english_input, message, translation_api,
                   translation_rx, threads, now, failed, suggested>>
    /\ UNCHANGED <<session, entered, importVars, parseVars, callVars>>

\* KeyCode::Tab: toggle_add_field
KeyTab ==
    /\ mode = "AddWord"
    /\ add_field' = IF add_field = "Dutch" THEN "English" ELSE "Dutch"
    /\ burst' = None
    /\ drained' = <<>>
    /\ UNCHANGED <<mode, dutch_input, english_input, message, translation_api,
                   translation_in_flight, pending_translation, last_edit_field,
                   last_edit_dutch_at, last_edit_english_at,
                   last_translated_dutch_source,
                   last_translated_english_source, translation_rx, threads,
                   now, failed, suggested>>
    /\ UNCHANGED <<session, entered, importVars, parseVars, callVars>>

\* what Db::word_exists and Db::save_word answer; the store is not part of
\* this state, so each answer is open
WordExistsAnswers == {"exists", "absent", "error"}

SaveWordAnswers == {"saved", "error"}

\* the message the Enter arm sets, and whether it goes on to clear_add_inputs
EnterOutcome(exists, save) ==
    IF Trim(active_input) = <<>> THEN "Word cannot be empty"
    ELSE IF Trim(inactive_input) = <<>> THEN "Translation cannot be empty"
    ELSE IF exists = "exists" THEN "Word already exists"
    ELSE IF exists = "error" THEN "Failed to check duplicates"
    ELSE IF save = "error" THEN "Failed to save word"
    ELSE "Word saved"

\* KeyCode::Enter
KeyEnter ==
    \E exists \in WordExistsAnswers, save \in SaveWordAnswers :
        /\ mode = "AddWord"
        /\ message' = Some(EnterOutcome(exists, save))
        /\ IF EnterOutcome(exists, save) = "Word saved"
           THEN /\ dutch_input' = <<>>
                /\ english_input' = <<>>
                /\ reset_translation_state
                /\ failed' = {}
                /\ suggested' = {}
           ELSE UNCHANGED <<dutch_input, english_input, translation_in_flight,
                            pending_translation, last_edit_field,
                            last_edit_dutch_at, last_edit_english_at,
                            last_translated_dutch_source,
                            last_translated_english_source, failed, suggested>>
        /\ burst' = None
        /\ drained' = <<>>
        /\ UNCHANGED <<mode, add_field, translation_api, translation_rx,
                       threads, now>>
        /\ UNCHANGED <<session, entered, importVars, parseVars, callVars>>

\* --------------------------------------------------------------- handle_key

\* a key that only changes the view
ChangeMode(to) ==
    /\ mode' = to
    /\ burst' = None
    /\ suggested' = {}
    /\ drained' = <<>>
    /\ UNCHANGED <<dutch_input, english_input, add_field, message,
                   translation_api, translation_in_flight, pending_translation,
                   last_edit_field, last_edit_dutch_at, last_edit_english_at,
                   last_translated_dutch_source,
                   last_translated_english_source, translation_rx, threads,
                   now, failed>>
    /\ UNCHANGED <<session, entered, importVars, parseVars, callVars>>

\* Ctrl+A
KeyCtrlA == ChangeMode("AddWord")

\* Ctrl+I, Ctrl+O: start_import
KeyCtrlI == ChangeMode("Import")

\* Esc in the import view
KeyImportEsc == mode = "Import" /\ ChangeMode("AddWord")

\* ------------------------------------------------------------ specification

\* no import has been started
ImportIdle ==
    /\ items = <<>>
    /\ index = 0
    /\ translations = <<>>
    /\ pos = 0
    /\ inserted = 0
    /\ skipped = 0
    /\ store = <<>>
    /\ chapter = <<>>
    /\ import_pc = "idle"
    /\ returned = None
    /\ calls = <<>>
    /\ paired = <<>>

\* normalize_item_text and is_heading have not been called
\* no card is under review
CoreIdle ==
    /\ card = [due_at |-> 0, interval_days |-> 0, ease |-> 250, reps |-> 0,
               lapses |-> 0]
    /\ reviews = 0
    /\ graded = <<>>

\* App::new: no review list loaded, nothing to confirm; the tables are empty
ConfirmIdle ==
    /\ db = [reviews |-> {}, cards |-> {}, words |-> {}]
    /\ review_list = <<>>
    /\ review_list_selection = 0
    /\ review_list_collapsed = {}
    /\ confirm_action = <<>>
    /\ confirm_message = <<>>
    /\ requested = <<>>
    /\ pressed = <<>>

\* run: the queue is empty; the local store holds nothing
SessionIdle ==
    /\ local = [words |-> <<>>, cards |-> <<>>, reviews |-> <<>>]
    /\ queue = <<>>
    /\ clock = 0
    /\ inflight = <<>>
    /\ served = <<>>
    /\ fresh = FALSE
    /\ finished = <<>>
    /\ sessions = 0
    /\ gradings = 0
    /\ failures = 0

\* no refresh has been called
RefreshIdle ==
    /\ tx = <<>>
    /\ snapshot = [words |-> <<>>, cards |-> <<>>, reviews |-> <<>>]
    /\ refresh_pc = "idle"
    /\ at_call = <<>>

RestIdle == CoreIdle /\ ConfirmIdle /\ SessionIdle /\ RefreshIdle

CallIdle ==
    /\ text_in = <<>>
    /\ text_out = <<>>
    /\ entry_in = None
    /\ median_in = [num |-> 0, den |-> 1]
    /\ heading_out = None
    /\ RestIdle

\* parse_grouped_items has not been called
ParseIdle ==
    /\ ocr_lines = <<>>
    /\ initial_group = None
    /\ median_height = [num |-> 0, den |-> 1]
    /\ columns = <<>>
    /\ parsed = None
    /\ origins = <<>>

\* App::new: the add-word form and the suggestion engine
FormNew ==
    /\ dutch_input = <<>>
    /\ english_input = <<>>
    /\ add_field = "Dutch"
    /\ message = None
    /\ translation_in_flight = FALSE
    /\ pending_translation = None
    /\ last_edit_field = None
    /\ last_edit_dutch_at = None
    /\ last_edit_english_at = None
    /\ last_translated_dutch_source = None
    /\ last_translated_english_source = None
    /\ translation_rx = <<>>
    /\ threads = EmptyBag
    /\ now = 0
    /\ drained = <<>>
    /\ burst = Some(0)
    /\ failed = {}
    /\ suggested = {}
    /\ session = None
    /\ entered = None

\* App::new
AppNew ==
    /\ mode = "AddWord"
    /\ translation_api \in BOOLEAN
    /\ FormNew

Init == AppNew /\ ImportIdle /\ ParseIdle /\ CallIdle

Next ==
    \/ Tick
    \/ ThreadDone
    \/ Advance
    \/ KeyChar
    \/ KeyBackspace
    \/ KeyEsc
    \/ KeyTab
    \/ KeyEnter
    \/ KeyCtrlA
    \/ KeyCtrlI
    \/ KeyImportEsc

Spec == Init /\ [][Next]_vars

LiveNext ==
    \/ Tick
    \/ ThreadDone
    \/ LiveAdvance
    \/ KeyChar
    \/ KeyBackspace
    \/ KeyEsc
    \/ KeyTab
    \/ KeyEnter
    \/ KeyCtrlA
    \/ KeyCtrlI
    \/ KeyImportEsc

\* run_app calls App::tick on every turn of its loop, at least every TICK_MS,
\* and translate_via_api returns (the HTTP client times out), so the tick and
\* a running thread both get their turn
LiveSpec ==
    Init /\ [][LiveNext]_vars /\ WF_vars(Tick) /\ WF_vars(ThreadDone)

\* ------------------------------------------------- reading the drained log

\* translation calls dispatched whose outcome no tick has received yet
Outstanding == BagCardinality(threads) + Len(translation_rx)

\* the entry's result has the direction and source text of the request that
\* was pending when it was received
Correlates(e) ==
    /\ IsSome(e.before.pending_translation)
    /\ Unwrap(e.before.pending_translation).direction = e.result.direction
    /\ Unwrap(e.before.pending_translation).source_text = e.result.source_text

\* the user edited the field the result would be written to after the pending
\* request started
TargetEditedAfterStart(e) ==
    /\ IsSome(e.before.pending_translation)
    /\ IsSome(LastEditAt(e.before, TargetField(e.result.direction)))
    /\ Unwrap(LastEditAt(e.before, TargetField(e.result.direction)))
           > Unwrap(e.before.pending_translation).started_at

\* the source field still holds, trimmed, the text the pending request took
SourceStillHolds(e) ==
    /\ IsSome(e.before.pending_translation)
    /\ Trim(InputOf(e.before, SourceField(e.result.direction)))
           = Unwrap(e.before.pending_translation).source_text

TextsUnchanged(e) ==
    /\ e.after.dutch_input = e.before.dutch_input
    /\ e.after.english_input = e.before.english_input

LastTranslatedUnchanged(e) ==
    /\ e.after.last_translated_dutch_source
           = e.before.last_translated_dutch_source
    /\ e.after.last_translated_english_source
           = e.before.last_translated_english_source

\* the log ends in the state the tick left
DrainedEndsHere ==
    drained # <<>> =>
        LET last == drained[Len(drained)].after
        IN  /\ last.dutch_input = dutch_input
            /\ last.english_input = english_input
            /\ last.message = message
            /\ last.last_translated_dutch_source = last_translated_dutch_source
            /\ last.last_translated_english_source
                   = last_translated_english_source

\* ------------------------------------------------------------------ claims

\* C1: in every reachable state at most one translation call is outstanding
\* (dispatched, its outcome not yet received by a tick), both directions
\* counted together.
C1_AtMostOneOutstanding == Outstanding <= 1

C3_UncorrelatedKeepsPending ==
    \A i \in 1..Len(drained) :
        (IsSome(drained[i].before.pending_translation) /\ ~Correlates(drained[i]))
            => drained[i].after.pending_translation
                   = drained[i].before.pending_translation

\* C4: when the target field was edited after the pending request started,
\* receiving that request's result, success or failure, leaves the target
\* field's text as it is.
C4_LaterEditWins ==
    /\ \A i \in 1..Len(drained) :
           (Correlates(drained[i]) /\ TargetEditedAfterStart(drained[i]))
               => InputOf(drained[i].after, TargetField(drained[i].result.direction))
                      = InputOf(drained[i].before,
                                TargetField(drained[i].result.direction))
    /\ DrainedEndsHere

\* C4 witness: a successful result of the pending request was received after
\* the user had typed into the target field.
C4_Witness ==
    \E i \in 1..Len(drained) :
        /\ Correlates(drained[i])
        /\ TargetEditedAfterStart(drained[i])
        /\ drained[i].result.result.ok
        /\ InputOf(App, TargetField(drained[i].result.direction))
               # drained[i].result.result.value
        /\ InputOf(App, TargetField(drained[i].result.direction)) # <<>>

\* C5: edits of one field, each less than the debounce interval after the one
\* before, followed by ticks, dispatch at most one request.
C5_DebounceSuppression == IsSome(burst) => Unwrap(burst) <= 1

\* a step that spawns a translation thread
Dispatched == BagCardinality(threads') = BagCardinality(threads) + 1

\* C6: a request is dispatched only by a tick, and only when, once the tick
\* has received what the channel held, no request is in flight, the view is
\* AddWord, a last edited field exists whose last edit is at least the
\* debounce interval old, its trimmed text is not empty and differs from the
\* text last translated for it; a step that edits a field dispatches nothing.
C6_DispatchOnlyWhenDue ==
    [][ Dispatched =>
          /\ translation_rx = <<>> => ~translation_in_flight
          /\ mode = "AddWord"
          /\ UNCHANGED <<mode, add_field, last_edit_field, last_edit_dutch_at,
                         last_edit_english_at, now>>
          /\ IsSome(last_edit_field)
          /\ IsSome(LastEditAt(App, Unwrap(last_edit_field)))
          /\ now - Unwrap(LastEditAt(App, Unwrap(last_edit_field)))
                 >= TRANSLATE_DEBOUNCE_MS
          /\ LET text ==
                     Trim(IF Unwrap(last_edit_field) = "Dutch"
                          THEN dutch_input' ELSE english_input')
                 translated ==
                     IF Unwrap(last_edit_field) = "Dutch"
                     THEN last_translated_dutch_source'
                     ELSE last_translated_english_source'
             IN  /\ text # <<>>
                 /\ translated # Some(text)
                 /\ translation_in_flight'
                 /\ pending_translation' =
                        Some([ direction |-> DirectionOf(Unwrap(last_edit_field)),
                               source_text |-> text,
                               started_at |-> now ])
      ]_vars

\* C6 witness: a request has just been dispatched, its thread is running.
C6_Witness ==
    /\ translation_in_flight
    /\ IsSome(pending_translation)
    /\ Unwrap(pending_translation).started_at = now
    /\ BagCardinality(threads) = 1
    /\ translation_rx = <<>>
    /\ drained = <<>>

\* C7: once a failure of a request has been received, no request is
\* dispatched for that field until the user edits a field again.  (failed
\* holds the fields whose failure was received since the last edit, and a
\* received failure takes the pending request, so a pending request of a
\* field in failed was dispatched after the failure and before any edit.)
C7_NoAutomaticRetry ==
    IsSome(pending_translation) =>
        SourceField(Unwrap(pending_translation).direction) \notin failed

\* C8: a received failure that passes every correlation check sets the
\* message and changes neither input nor either last-translated record.
C8_FailureLeavesEditor ==
    /\ \A i \in 1..Len(drained) :
           ( /\ Correlates(drained[i])
             /\ ~TargetEditedAfterStart(drained[i])
             /\ SourceStillHolds(drained[i])
             /\ ~drained[i].result.result.ok )
           => /\ drained[i].after.message = Some("Translation failed")
              /\ TextsUnchanged(drained[i])
              /\ LastTranslatedUnchanged(drained[i])
    /\ drained # <<>> =>
           /\ drained[Len(drained)].after.message = message
           /\ drained[Len(drained)].after.last_translated_dutch_source
                  = last_translated_dutch_source
           /\ drained[Len(drained)].after.last_translated_english_source
                  = last_translated_english_source

\* C8 witness: the failure of the pending request was received and surfaced
\* while an earlier suggestion was on record.
C8_Witness ==
    \E i \in 1..Len(drained) :
        /\ Correlates(drained[i])
        /\ ~TargetEditedAfterStart(drained[i])
        /\ SourceStillHolds(drained[i])
        /\ ~drained[i].result.result.ok
        /\ drained[i].before.message = None
        /\ message = Some("Translation failed")
        /\ IsSome(LastTranslated(App, TargetField(drained[i].result.direction)))

\* C9: every received outcome, applied, failed or discarded, leaves the
\* engine not in flight; and with ticks firing and threads finishing, a
\* request in flight is followed by a tick that receives an outcome (or by a
\* reset), so the engine does not stay in flight for ever.
C9_InFlightEnds ==
    /\ [](\A i \in 1..Len(drained) : ~drained[i].after.translation_in_flight)
    /\ (translation_in_flight /\ drained = <<>>)
           ~> (~translation_in_flight \/ drained # <<>>)

\* C9 witness: a tick received the outcome of the request in flight, threw it
\* away because the source had changed meanwhile, and the engine is idle.
C9_Witness ==
    /\ ~translation_in_flight
    /\ \E i \in 1..Len(drained) :
           /\ drained[i].before.translation_in_flight
           /\ drained[i].branch = "source_changed"
           /\ ~drained[i].after.translation_in_flight

\* the last edited field is f, and its last edit is recorded
LastEdited(f) == last_edit_field = Some(f) /\ IsSome(LastEditAt(App, f))

\* the time since the last edit of f
Elapsed(f) == now - Unwrap(LastEditAt(App, f))

\* C10: with a field edited and left alone, a tick before the debounce
\* interval has passed dispatches nothing; a tick at or after it, in the
\* AddWord view with the translation service configured, nothing in flight
\* and the text not yet translated, dispatches the request for that field and
\* its trimmed text; and a received success of the pending request, the
\* target not edited since the request started and the source unchanged, puts
\* the translation into the target field and records the source text as last
\* translated for the source field.
C10_SuccessPath ==
    /\ \A f \in Fields :
           (LastEdited(f) /\ Elapsed(f) < TRANSLATE_DEBOUNCE_MS)
               => TickOutcome.spawned = None
    /\ \A f \in Fields :
           ( /\ LastEdited(f)
             /\ Elapsed(f) >= TRANSLATE_DEBOUNCE_MS
             /\ mode = "AddWord"
             /\ translation_api
             /\ ~translation_in_flight
             /\ translation_rx = <<>>
             /\ Trim(InputOf(App, f)) # <<>>
             /\ LastTranslated(App, f) # Some(Trim(InputOf(App, f))) )
           => /\ TickOutcome.spawned =
                     Some([ direction |-> DirectionOf(f),
                            source_text |-> Trim(InputOf(App, f)) ])
              /\ TickOutcome.app.translation_in_flight
              /\ TickOutcome.app.pending_translation =
                     Some([ direction |-> DirectionOf(f),
                            source_text |-> Trim(InputOf(App, f)),
                            started_at |-> now ])
    /\ \A i \in 1..Len(drained) :
           ( /\ Correlates(drained[i])
             /\ ~TargetEditedAfterStart(drained[i])
             /\ SourceStillHolds(drained[i])
             /\ drained[i].result.result.ok )
           => /\ InputOf(drained[i].after, TargetField(drained[i].result.direction))
                     = drained[i].result.result.value
              /\ LastTranslated(drained[i].after,
                                SourceField(drained[i].result.direction))
                     = Some(drained[i].result.source_text)
              /\ InputOf(drained[i].after, SourceField(drained[i].result.direction))
                     = InputOf(drained[i].before,
                               SourceField(drained[i].result.direction))
    /\ drained # <<>> =>
           /\ drained[Len(drained)].after.dutch_input = dutch_input
           /\ drained[Len(drained)].after.english_input = english_input

\* C10 witness: the Dutch input was typed, its request went out when the
\* debounce interval had passed, and the success filled the empty English
\* input.
C10_Witness ==
    /\ Len(drained) = 1
    /\ Correlates(drained[1])
    /\ drained[1].result.direction = "DutchToEnglish"
    /\ drained[1].result.result.ok
    /\ drained[1].before.english_input = <<>>
    /\ english_input = drained[1].result.result.value
    /\ dutch_input = drained[1].result.source_text
    /\ last_translated_dutch_source = Some(dutch_input)
    /\ Unwrap(drained[1].before.pending_translation).started_at
           = Unwrap(last_edit_dutch_at) + TRANSLATE_DEBOUNCE_MS

\* a step that takes a text from one of the inputs and leaves the input empty
ClearsText ==
    \/ dutch_input # <<>> /\ dutch_input' = <<>>
    \/ english_input # <<>> /\ english_input' = <<>>

\* C11: a step that clears the text of an input (Esc, a save, Backspace on
\* the last character) leaves no last edited field, no last-edit time, no
\* last-translated record and no pending request.
C11_ClearingResetsBookkeeping ==
    [][ ClearsText =>
          /\ last_edit_field' = None
          /\ last_edit_dutch_at' = None
          /\ last_edit_english_at' = None
          /\ last_translated_dutch_source' = None
          /\ last_translated_english_source' = None
          /\ pending_translation' = None
      ]_vars

\* ---------------------------------------------------------- letters, rows

UPPER ==
    <<"A", "B", "C", "D", "E", "F", "G", "H", "I", "J", "K", "L", "M",
      "N", "O", "P", "Q", "R", "S", "T", "U", "V", "W", "X", "Y", "Z">>

LOWER ==
    <<"a", "b", "c", "d", "e", "f", "g", "h", "i", "j", "k", "l", "m",
      "n", "o", "p", "q", "r", "s", "t", "u", "v", "w", "x", "y", "z">>

\* char::is_uppercase
IsUppercase(c) == \E i \in 1..Len(UPPER) : UPPER[i] = c

\* the lower-case form of a character
ToLowerChar(c) ==
    IF IsUppercase(c)
    THEN LOWER[CHOOSE i \in 1..Len(UPPER) : UPPER[i] = c]
    ELSE c

\* str::to_lowercase, SQL lower()
RECURSIVE ToLowercase(_)
ToLowercase(s) ==
    IF s = <<>> THEN <<>>
    ELSE <<ToLowerChar(Head(s))>> \o ToLowercase(Tail(s))

Ok(v) == [ok |-> TRUE, value |-> v]

Err(e) == [ok |-> FALSE, value |-> e]

Min(a, b) == IF a < b THEN a ELSE b

\* word_exists comparing the text as it is written
word_exists_exact(rows, text, language) ==
    \E r \in 1..Len(rows) :
        rows[r].text = text /\ rows[r].language = language

\* Db::word_exists: lower(text) = lower(?1) AND language = ?2
word_exists(rows, text, language) ==
    \E r \in 1..Len(rows) :
        /\ ToLowercase(rows[r].text) = ToLowercase(text)
        /\ rows[r].language = language

\* the row Db::save_word inserts into words
WordRow(text, translation, language, ch, group) ==
    [ text |-> text,
      translation |-> translation,
      language |-> language,
      chapter |-> ch,
      group |-> group ]

\* Db::save_word
save_word(rows, text, translation, language, ch, group) ==
    Append(rows, WordRow(text, translation, language, ch, group))

\* ------------------------------------------------------- import_from_image

\* import_from_image: chunk_size
chunk_size == 25

\* the longest item list an import is given
MaxItems == 52

DigitChars == <<"0", "1", "2", "3", "4", "5", "6", "7", "8", "9">>

\* a number below 100 in two digits
Digits2(n) == <<DigitChars[(n \div 10) + 1], DigitChars[(n % 10) + 1]>>

\* after this many items the texts of an item list come again, in capitals:
\* within the first chunk, in the second chunk, never
Periods == {12, 26, 99}

\* the text of the i-th item of a list with the given period
ItemText(i, period) ==
    <<IF i > period THEN "K" ELSE "k">> \o Digits2(((i - 1) % period) + 1)

\* the group of the i-th item
ItemGroup(i) == IF i % 3 = 0 THEN <<"G", "2">> ELSE <<"G", "1">>

\* the item lists parse_grouped_items hands to an import
ItemList(n, period) ==
    [i \in 1..n |-> [text |-> ItemText(i, period), group |-> ItemGroup(i)]]

\* the chapters a caller supplies
Chapters == {<<"1">>, <<"2">>}

\* the words table before the import
InitialStores ==
    { <<>>,
      << WordRow(<<"K", "0", "1">>, <<"x">>, "Dutch", <<"1">>, <<"G", "0">>) >>,
      << WordRow(<<"k", "0", "1">>, <<"x">>, "English", <<"1">>, <<"G", "0">>) >> }

\* the translation the service gives for a text
Translation(text) == <<"t">> \o text

\* what the translation service can answer to a call with these texts: one
\* translation per text, one too few, one too many, or an HTTP failure
Responses(texts) ==
    { [ status |-> "ok",
        translations |-> [j \in 1..Len(texts) |-> Translation(texts[j])] ],
      [ status |-> "ok",
        translations |-> [j \in 1..(Len(texts) - 1) |-> Translation(texts[j])] ],
      [ status |-> "ok",
        translations |->
            [j \in 1..(Len(texts) + 1) |->
                Translation(texts[IF j > Len(texts) THEN 1 ELSE j])] ],
      [ status |-> "error", translations |-> <<>> ] }

\* translate_batch_via_api taking a failed call for an empty answer
translate_batch_via_api_lenient(texts, response) ==
    IF texts = <<>> THEN Ok(<<>>)
    ELSE IF response.status # "ok" THEN Ok(<<>>)
    ELSE IF Len(response.translations) # Len(texts)
    THEN Err("Translation API response count mismatch")
    ELSE Ok(response.translations)

\* translate_batch_via_api without the comparison of the counts
translate_batch_via_api_unchecked(texts, response) ==
    IF texts = <<>> THEN Ok(<<>>)
    ELSE IF response.status # "ok" THEN Err("Translation API error")
    ELSE Ok(response.translations)

\* translate_batch_via_api, given what the service answers
translate_batch_via_api(texts, response) ==
    IF texts = <<>> THEN Ok(<<>>)
    ELSE IF response.status # "ok" THEN Err("Translation API error")
    ELSE IF Len(response.translations) # Len(texts)
    THEN Err("Translation API response count mismatch")
    ELSE Ok(response.translations)

\* the end of a chunk one item past chunk_size
ChunkEndLong(i, len) == Min(i + chunk_size + 1, len)

\* let end = (index + chunk_size).min(items.len())
ChunkEnd(i, len) == Min(i + chunk_size, len)

\* let chunk = &items[index..end]
Chunk == SubSeq(items, index + 1, ChunkEnd(index, Len(items)))

\* let texts = chunk.iter().map(|item| item.text.as_str()).collect()
ChunkTexts == [j \in 1..Len(Chunk) |-> Chunk[j].text]

\* the pairs chunk.iter().zip(translations) yields
ZipLen == Min(Len(Chunk), Len(translations))

\* the engine's part of App an import leaves alone
importFrame ==
    <<dutch_input, english_input, add_field, translation_api,
      translation_in_flight, pending_translation, last_edit_field,
      last_edit_dutch_at, last_edit_english_at, last_translated_dutch_source,
      last_translated_english_source, translation_rx, threads, now, drained,
      burst, failed, suggested, session, entered, parseVars, callVars>>

\* import_from_image returns, and handle_import_preview_key shows the outcome
Return(result) ==
    /\ returned' = Some(result)
    /\ import_pc' = "returned"
    /\ message' = IF result.ok
                  THEN Some(<<"Imported", result.value, "words">>)
                  ELSE Some(<<"Import failed", result.value>>)
    /\ mode' = IF result.ok THEN "Message" ELSE "Import"

\* y in the import preview: run_ocr and parse_grouped_items, up to the loop
ImportStart ==
    \E n \in 0..MaxItems, period \in Periods, ch \in Chapters,
       ocr \in {"ok", "error"} :
        /\ import_pc = "idle"
        /\ mode = "ImportPreview"
        /\ translation_api
        /\ chapter' = ch
        /\ IF ocr = "error"
           THEN /\ Return(Err("Vision OCR failed"))
                /\ UNCHANGED items
           ELSE /\ items' = ItemList(n, period)
                /\ IF n = 0
                   THEN Return(Ok(0))
                   ELSE /\ import_pc' = "loop"
                        /\ UNCHANGED <<returned, message, mode>>
        /\ UNCHANGED <<index, translations, pos, inserted, skipped, store,
                       calls, paired, importFrame>>

\* y in the import preview while the store fails the query of
\* db.last_group_for_chapter: the `?` hands the error to handle_key and,
\* through its `?`, to run_app, which returns it; import_from_image is not
\* called
ImportLookupFails ==
    /\ import_pc = "idle"
    /\ mode = "ImportPreview"
    /\ translation_api
    /\ session' = Some(Err("io::Error"))
    /\ import_pc' = "ended"
    /\ UNCHANGED <<items, index, translations, pos, inserted, skipped, store,
                   chapter, returned, calls, paired, message, mode>>
    /\ UNCHANGED <<dutch_input, english_input, add_field, translation_api,
                   translation_in_flight, pending_translation, last_edit_field,
                   last_edit_dutch_at, last_edit_english_at,
                   last_translated_dutch_source,
                   last_translated_english_source, translation_rx, threads,
                   now, drained, burst, failed, suggested, entered,
                   parseVars, callVars>>

\* one turn of the while loop up to the for loop: the chunk is translated
TranslateChunk ==
    /\ import_pc = "loop"
    /\ index < Len(items)
    /\ \E response \in Responses(ChunkTexts) :
        /\ calls' = Append(calls, [ texts |-> ChunkTexts,
                                    from |-> index,
                                    response |-> response ])
        /\ IF translate_batch_via_api(ChunkTexts, response).ok
           THEN /\ translations' =
                       translate_batch_via_api(ChunkTexts, response).value
                /\ pos' = 0
                /\ import_pc' = "pairs"
                /\ UNCHANGED <<returned, message, mode>>
           ELSE /\ Return(translate_batch_via_api(ChunkTexts, response))
                /\ UNCHANGED <<translations, pos>>
        /\ UNCHANGED <<items, index, inserted, skipped, store, chapter, paired,
                       importFrame>>

\* whether the store answers word_exists
DbAnswers == {"ok", "error"}

\* how Db::save_word ends: both INSERTs done, the INSERT INTO words failed,
\* or the INSERT INTO cards failed after the words row was written (the two
\* statements are executed one by one, outside a transaction)
SaveWordEnds == {"ok", "words_error", "cards_error"}

\* one turn of the for loop
PersistPair ==
    /\ import_pc = "pairs"
    /\ pos < ZipLen
    /\ \E exists_answer \in DbAnswers, save_answer \in SaveWordEnds :
        LET item == Chunk[pos + 1]
            translation == translations[pos + 1]
            exists == word_exists(store, item.text, "Dutch")
            outcome ==
                IF exists_answer = "error" THEN "check_failed"
                ELSE IF exists THEN "skipped"
                ELSE IF save_answer # "ok" THEN "save_failed"
                ELSE "inserted"
        IN  /\ paired' = Append(paired, [ item |-> index + pos + 1,
                                          translation |-> translation,
                                          outcome |-> outcome ])
            /\ CASE outcome = "check_failed" ->
                        /\ Return(Err("Failed to check duplicates"))
                        /\ UNCHANGED <<skipped, inserted, store, pos>>
                 [] outcome = "skipped" ->
                        /\ skipped' = skipped + 1
                        /\ pos' = pos + 1
                        /\ UNCHANGED <<inserted, store, returned, import_pc,
                                       message, mode>>
                 [] outcome = "save_failed" ->
                        /\ Return(Err("Failed to save word"))
                        /\ store' = IF save_answer = "cards_error"
                                    THEN save_word(store, item.text, translation,
                                                   "Dutch", chapter, item.group)
                                    ELSE store
                        /\ UNCHANGED <<skipped, inserted, pos>>
                 [] outcome = "inserted" ->
                        /\ store' = save_word(store, item.text, translation,
                                              "Dutch", chapter, item.group)
                        /\ inserted' = inserted + 1
                        /\ pos' = pos + 1
                        /\ UNCHANGED <<skipped, returned, import_pc, message,
                                       mode>>
            /\ UNCHANGED <<items, index, translations, chapter, calls,
                           importFrame>>

\* the for loop is through: index = end
ChunkDone ==
    /\ import_pc = "pairs"
    /\ pos = ZipLen
    /\ index' = ChunkEnd(index, Len(items))
    /\ import_pc' = "loop"
    /\ UNCHANGED <<items, translations, pos, inserted, skipped, store, chapter,
                   returned, calls, paired, message, mode, importFrame>>

\* the while loop is through: Ok(inserted)
ImportReturn ==
    /\ import_pc = "loop"
    /\ index >= Len(items)
    /\ Return(Ok(inserted))
    /\ UNCHANGED <<items, index, translations, pos, inserted, skipped, store,
                   chapter, calls, paired, importFrame>>

\* the import preview is open, the translation service configured
ImportInit ==
    /\ mode = "ImportPreview"
    /\ translation_api = TRUE
    /\ FormNew
    /\ items = <<>>
    /\ index = 0
    /\ translations = <<>>
    /\ pos = 0
    /\ inserted = 0
    /\ skipped = 0
    /\ store \in InitialStores
    /\ chapter = <<>>
    /\ import_pc = "idle"
    /\ returned = None
    /\ calls = <<>>
    /\ paired = <<>>
    /\ ParseIdle
    /\ CallIdle

ImportNext ==
    \/ ImportStart
    \/ ImportLookupFails
    \/ TranslateChunk
    \/ PersistPair
    \/ ChunkDone
    \/ ImportReturn

ImportSpec == ImportInit /\ [][ImportNext]_vars

\* ------------------------------------------------- reading an import's logs

\* the translation service failed the call
FailedCall(c) == c.response.status # "ok"

\* the translation service answered the call with another number of
\* translations than it was sent texts
MismatchCall(c) ==
    /\ c.response.status = "ok"
    /\ Len(c.response.translations) # Len(c.texts)

\* the pairs the for loop inserted, as rows
RECURSIVE InsertedRows(_)
InsertedRows(n) ==
    IF n = 0 THEN <<>>
    ELSE IF paired[n].outcome = "inserted"
    THEN Append(InsertedRows(n - 1),
                [ text |-> items[paired[n].item].text,
                  translation |-> paired[n].translation,
                  language |-> "Dutch",
                  chapter |-> chapter,
                  group |-> items[paired[n].item].group ])
    ELSE InsertedRows(n - 1)

\* the store holds what it held before the import, then the inserted pairs
StoreKeepsInserted ==
    \E before \in InitialStores : store = before \o InsertedRows(Len(paired))

\* the import has returned a failure
Aborted == import_pc = "returned" /\ IsSome(returned) /\ ~Unwrap(returned).ok

\* the translations of the calls up to the n-th, one after the other
RECURSIVE ReceivedTranslations(_)
ReceivedTranslations(n) ==
    IF n = 0 THEN <<>>
    ELSE ReceivedTranslations(n - 1) \o calls[n].response.translations

\* C12: a translation call the service fails is the last call of the import,
\* the import returns a failure, no item of its chunk or of a later one has
\* been through the for loop, and the store holds every row inserted before.
C12_TranslationFailureAborts ==
    \A c \in 1..Len(calls) :
        FailedCall(calls[c]) =>
            /\ c = Len(calls)
            /\ Aborted
            /\ \A p \in 1..Len(paired) : paired[p].item <= calls[c].from
            /\ StoreKeepsInserted

\* C12 witness: the second call failed after rows of the first chunk had
\* been inserted.
C12_Witness ==
    /\ Len(calls) = 2
    /\ FailedCall(calls[2])
    /\ inserted >= 1
    /\ Len(store) >= inserted
    /\ Aborted

\* C13: each turn of the for loop that the store answers takes the next item
\* with its translation; when the store holds a row with the item's text, in
\* any case of letters, and language Dutch, nothing is inserted and skipped
\* grows by one; otherwise one row with the item's text, translation, group
\* and the chapter is inserted and inserted grows by one.
C13_PairSkippedOrInserted ==
    [][ (Len(paired') = Len(paired) + 1 /\ import_pc' # "returned") =>
          LET p == paired'[Len(paired')]
              item == items[p.item]
              held == \E r \in 1..Len(store) :
                          /\ ToLowercase(store[r].text) = ToLowercase(item.text)
                          /\ store[r].language = "Dutch"
          IN  /\ p.item = Len(paired) + 1
              /\ p.translation = Translation(item.text)
              /\ IF held
                 THEN /\ store' = store
                      /\ skipped' = skipped + 1
                      /\ inserted' = inserted
                 ELSE /\ store' = Append(store,
                                         [ text |-> item.text,
                                           translation |-> p.translation,
                                           language |-> "Dutch",
                                           chapter |-> chapter,
                                           group |-> item.group ])
                      /\ inserted' = inserted + 1
                      /\ skipped' = skipped
      ]_vars

\* C13 witness: an import has skipped an item whose text the store held in
\* other letters, and inserted another.
C13_Witness ==
    /\ skipped >= 1
    /\ inserted >= 1
    /\ \E p \in 1..Len(paired), r \in 1..Len(store) :
           /\ paired[p].outcome = "skipped"
           /\ store[r].text # items[paired[p].item].text
           /\ ToLowercase(store[r].text) = ToLowercase(items[paired[p].item].text)

\* the counts the caller can read from what import_from_image returned
CountsReturned(result) == IF result.ok THEN <<result.value>> ELSE <<>>

\* C14: what a successful import returns carries both counts, inserted and
\* skipped, and they add up to the number of items; what an import returns
\* that fails after it has inserted carries both counts as well.
C14_ReturnsBothCounts ==
    IsSome(returned) =>
        /\ Unwrap(returned).ok =>
               /\ CountsReturned(Unwrap(returned)) = <<inserted, skipped>>
               /\ inserted + skipped = Len(items)
        /\ (~Unwrap(returned).ok /\ inserted >= 1) =>
               CountsReturned(Unwrap(returned)) = <<inserted, skipped>>

\* C15: the calls carry the items' texts in contiguous chunks, one after the
\* other, each of 1 to chunk_size texts and only the last of fewer than
\* chunk_size; and when the import succeeds, the translations of the calls,
\* one after the other, are as many as the items, the i-th the translation of
\* the i-th item, paired with it by the for loop.
C15_BatchRoundTrip ==
    /\ \A c \in 1..Len(calls) :
           /\ Len(calls[c].texts) \in 1..chunk_size
           /\ calls[c].from =
                  IF c = 1 THEN 0
                  ELSE calls[c - 1].from + Len(calls[c - 1].texts)
           /\ calls[c].texts =
                  [j \in 1..Len(calls[c].texts) |-> items[calls[c].from + j].text]
           /\ Len(calls[c].texts) < chunk_size =>
                  calls[c].from + Len(calls[c].texts) = Len(items)
    /\ (IsSome(returned) /\ Unwrap(returned).ok) =>
           /\ ReceivedTranslations(Len(calls))
                  = [i \in 1..Len(items) |-> Translation(items[i].text)]
           /\ Len(paired) = Len(items)
           /\ \A i \in 1..Len(paired) :
                  /\ paired[i].item = i
                  /\ paired[i].translation
                         = ReceivedTranslations(Len(calls))[i]

\* C15 witness: an import of more than two chunks' items succeeded; its last
\* chunk is shorter than chunk_size.
C15_Witness ==
    /\ IsSome(returned)
    /\ Unwrap(returned).ok
    /\ Len(calls) = 3
    /\ Len(calls[1].texts) = chunk_size
    /\ Len(calls[3].texts) < chunk_size

\* C16: a call answered with another number of translations than texts is
\* the last call of the import, the import returns a failure, and no item of
\* that chunk has been through the for loop, so none was looked up or
\* inserted.
C16_CountMismatchAborts ==
    \A c \in 1..Len(calls) :
        MismatchCall(calls[c]) =>
            /\ c = Len(calls)
            /\ Aborted
            /\ Unwrap(returned).value = "Translation API response count mismatch"
            /\ \A p \in 1..Len(paired) : paired[p].item <= calls[c].from
            /\ StoreKeepsInserted

\* C16 witness: the second call was answered with one translation too many,
\* after the first chunk had been inserted.
C16_Witness ==
    /\ Len(calls) = 2
    /\ MismatchCall(calls[2])
    /\ Len(calls[2].response.translations) > Len(calls[2].texts)
    /\ inserted = chunk_size
    /\ Aborted

\* ------------------------------------------------------ parse_grouped_items
\* Coordinates and heights are in thousandths of the page (0.08 is 80).

\* str::contains(char)
Contains(s, c) == \E i \in 1..Len(s) : s[i] = c

\* str::contains(&str)
ContainsStr(s, sub) ==
    \E i \in 1..(Len(s) - Len(sub) + 1) : SubSeq(s, i, i + Len(sub) - 1) = sub

\* str::starts_with
StartsWith(s, pre) == Len(s) >= Len(pre) /\ SubSeq(s, 1, Len(pre)) = pre

\* str::strip_prefix(pre).unwrap_or(s)
StripPrefix(s, pre) ==
    IF StartsWith(s, pre) THEN SubSeq(s, Len(pre) + 1, Len(s)) ELSE s

\* str::trim_end_matches(char)
RECURSIVE TrimEndMatches(_, _)
TrimEndMatches(s, c) ==
    IF s # <<>> /\ s[Len(s)] = c
    THEN TrimEndMatches(SubSeq(s, 1, Len(s) - 1), c)
    ELSE s

\* str::replace(char, &str)
RECURSIVE Replace(_, _, _)
Replace(s, a, b) ==
    IF s = <<>> THEN <<>>
    ELSE <<IF Head(s) = a THEN b ELSE Head(s)>> \o Replace(Tail(s), a, b)

\* char::is_ascii_digit
IsAsciiDigit(c) == c \in {"0", "1", "2", "3", "4", "5", "6", "7", "8", "9"}

\* the first p elements of seq put in the order of their ranks
RECURSIVE Arranged(_, _, _)
Arranged(seq, rank, p) ==
    IF p = 0 THEN <<>>
    ELSE Append(Arranged(seq, rank, p - 1),
                seq[CHOOSE i \in 1..Len(seq) : rank[i] = p])

\* slice::sort_by: a stable sort, Less being the strict order of the
\* comparator; the rank of an element counts the elements put before it
SortBy(seq, Less(_, _)) ==
    LET rank == [i \in 1..Len(seq) |->
                    Cardinality({ j \in 1..Len(seq) :
                        \/ Less(seq[j], seq[i])
                        \/ ~Less(seq[i], seq[j]) /\ j < i }) + 1]
    IN  Arranged(seq, rank, Len(seq))

\* a quotient of two numbers, kept exact
Ratio(num, den) == [num |-> num, den |-> den]

\* a < b for two quotients with positive denominators
RatioLess(a, b) == a.num * b.den < b.num * a.den

Abs(n) == IF n < 0 THEN 0 - n ELSE n

looks_like_chapter_line(text) ==
    LET lowered == ToLowercase(text)
    IN  \/ ContainsStr(lowered, <<"h", "o", "o", "f", "d", "s", "t", "u", "k">>)
        \/ ContainsStr(lowered, <<"c", "h", "a", "p", "t", "e", "r">>)
        \/ ContainsStr(lowered, <<"h", "o", "o", "l", "a", "s", "t", "u", "k">>)
        \/ /\ StartsWith(lowered, <<"h", "o", "o">>)
           /\ ContainsStr(lowered, <<"s", "t", "u", "k">>)

looks_like_page_number(text) ==
    LET trimmed == Trim(text)
        all_digits == \A i \in 1..Len(trimmed) : IsAsciiDigit(trimmed[i])
    IN  IF trimmed = <<>> THEN FALSE
        ELSE IF all_digits THEN TRUE
        ELSE IF Len(trimmed) <= 3 /\ all_digits THEN TRUE
        ELSE FALSE

\* the closure of filter_map: whether a line becomes an entry
KeepsLine(line) ==
    LET text == Trim(line.text)
    IN  /\ text # <<>>
        /\ ~(looks_like_chapter_line(text) \/ looks_like_page_number(text))

\* struct LineEntry, as the closure of filter_map builds it; `line` records
\* the position of the OCR line the entry was built from
LineEntry(line, i) ==
    [ text |-> Trim(line.text),
      x |-> line.bbox.x,
      y_top |-> 1000 - (line.bbox.y + line.bbox.h),
      height |-> line.bbox.h,
      line |-> i ]

\* filter_map over the first k lines
RECURSIVE EntriesUpTo(_, _)
EntriesUpTo(lines, k) ==
    IF k = 0 THEN <<>>
    ELSE IF KeepsLine(lines[k])
         THEN Append(EntriesUpTo(lines, k - 1), LineEntry(lines[k], k))
         ELSE EntriesUpTo(lines, k - 1)

\* lines.iter().filter_map(..).collect()
Entries(lines) == EntriesUpTo(lines, Len(lines))

\* entries.iter().map(|entry| entry.height).collect(), over the first k
RECURSIVE Heights(_, _)
Heights(entries, k) ==
    IF k = 0 THEN <<>> ELSE Append(Heights(entries, k - 1), entries[k].height)

\* median: the middle value, or the average of the two middle values
median(values) ==
    LET sorted == SortBy(values, LAMBDA a, b : a < b)
        mid == Len(values) \div 2
    IN  IF values = <<>> THEN Ratio(0, 1)
        ELSE IF Len(values) % 2 = 0
             THEN Ratio(sorted[mid] + sorted[mid + 1], 2)
             ELSE Ratio(sorted[mid + 1], 1)

\* split_into_columns: threshold
threshold == 80

\* ColumnBucket::new
ColumnBucketNew(entry) ==
    [ center |-> Ratio(entry.x, 1), lines |-> <<entry>> ]

\* ColumnBucket::add with the center moved onto the entry added
ColumnBucketAddLast(column, entry) ==
    [ center |-> Ratio(entry.x, 1),
      lines |-> Append(column.lines, entry) ]

\* ColumnBucket::add: center = (center * count + x) / (count + 1)
ColumnBucketAdd(column, entry) ==
    LET count == Len(column.lines)
    IN  [ center |-> Ratio(column.center.num * count + entry.x * column.center.den,
                           column.center.den * (count + 1)),
          lines |-> Append(column.lines, entry) ]

\* (entry.x - column.center).abs()
Distance(entry, column) ==
    Ratio(Abs(entry.x * column.center.den - column.center.num), column.center.den)

\* the inner for loop of split_into_columns: the first column at the least
\* distance
BestIndex(buckets, entry) ==
    CHOOSE idx \in 1..Len(buckets) :
        /\ \A j \in 1..Len(buckets) :
               ~RatioLess(Distance(entry, buckets[j]), Distance(entry, buckets[idx]))
        /\ \A j \in 1..(idx - 1) :
               RatioLess(Distance(entry, buckets[idx]), Distance(entry, buckets[j]))

\* the body of the outer for loop of split_into_columns
PlaceEntry(buckets, entry) ==
    IF buckets = <<>> THEN <<ColumnBucketNew(entry)>>
    ELSE LET idx == BestIndex(buckets, entry)
         IN  IF ~RatioLess(Ratio(threshold, 1), Distance(entry, buckets[idx]))
             THEN [buckets EXCEPT ![idx] = ColumnBucketAdd(buckets[idx], entry)]
             ELSE Append(buckets, ColumnBucketNew(entry))

\* the outer for loop of split_into_columns over the first k entries
RECURSIVE PlaceAll(_, _)
PlaceAll(sorted, k) ==
    IF k = 0 THEN <<>> ELSE PlaceEntry(PlaceAll(sorted, k - 1), sorted[k])

\* split_into_columns taking the entries in the order of the page
ColumnBucketsUnsorted(entries) ==
    SortBy(PlaceAll(entries, Len(entries)),
           LAMBDA a, b : RatioLess(a.center, b.center))

\* split_into_columns, before the centers are dropped
ColumnBuckets(entries) ==
    LET sorted == SortBy(entries, LAMBDA a, b : a.x < b.x)
    IN  SortBy(PlaceAll(sorted, Len(sorted)),
               LAMBDA a, b : RatioLess(a.center, b.center))

\* columns.into_iter().map(|column| column.lines).collect(), over the first c
RECURSIVE ColumnLines(_, _)
ColumnLines(buckets, c) ==
    IF c = 0 THEN <<>>
    ELSE Append(ColumnLines(buckets, c - 1), buckets[c].lines)

split_into_columns(entries) ==
    LET buckets == ColumnBuckets(entries)
    IN  ColumnLines(buckets, Len(buckets))

\* is_heading with one height test for every text
is_heading_strict(entry, med) ==
    LET text == Trim(entry.text)
    IN  /\ text # <<>>
        /\ ~(Contains(text, ",") \/ Contains(text, "-")
               \/ Contains(text, "(") \/ Contains(text, ")"))
        /\ IsUppercase(text[1])
        /\ ~\E i \in 2..Len(text) : IsUppercase(text[i])
        /\ med.num > 0
        /\ entry.height * 100 * med.den >= med.num * 115

is_heading(entry, med) ==
    LET text == Trim(entry.text)
    IN  IF text = <<>> THEN FALSE
        ELSE IF \/ Contains(text, ",") \/ Contains(text, "-")
                \/ Contains(text, "(") \/ Contains(text, ")") THEN FALSE
        ELSE IF ~IsUppercase(text[1]) THEN FALSE
        ELSE IF \E i \in 2..Len(text) : IsUppercase(text[i]) THEN FALSE
        ELSE IF med.num > 0
             THEN IF Contains(text, " ")
                  THEN entry.height * 100 * med.den
                           >= med.num * 115
                  ELSE entry.height * 10 * med.den
                           >= med.num * 8
        ELSE FALSE

normalize_heading(text) == Trim(TrimEndMatches(text, ":"))

\* normalize_item_text taking a bare "-" for the bullet
normalize_item_text_dash(text) ==
    LET trimmed == Trim(text)
        unbulleted == StripPrefix(trimmed, <<"-">>)
        unspaced == StripPrefix(unbulleted, <<" ">>)
    IN  Replace(Trim(unspaced), ".", ",")

\* normalize_item_text without the last trim
normalize_item_text_untrimmed(text) ==
    LET trimmed == Trim(text)
        unbulleted == StripPrefix(trimmed, <<"-", " ">>)
        unspaced == StripPrefix(unbulleted, <<" ">>)
    IN  Replace(unspaced, ".", ",")

normalize_item_text(text) ==
    LET trimmed == Trim(text)
        unbulleted == StripPrefix(trimmed, <<"-", " ">>)
        unspaced == StripPrefix(unbulleted, <<" ">>)
    IN  Replace(Trim(unspaced), ".", ",")

Ungrouped == <<"U", "n", "g", "r", "o", "u", "p", "e", "d">>

\* column.sort_by left out: the column as split_into_columns built it
SortColumnNot(column) == column

\* column.sort_by(|a, b| a.y_top.partial_cmp(&b.y_top))
SortColumn(column) == SortBy(column, LAMBDA a, b : a.y_top < b.y_top)

\* the group a heading sets, if the first heading were kept
HeadingGroupFirst(current_group, normalized) ==
    IF IsSome(current_group) THEN current_group
    ELSE Some(normalize_heading(normalized))

\* current_group = Some(normalize_heading(&normalized))
HeadingGroup(current_group, normalized) == Some(normalize_heading(normalized))

\* items.push(ImportItem { text: normalized, group }); `from` records the
\* line the item came from
PushItem(acc, entry, normalized) ==
    [ acc EXCEPT
        !.items = Append(@, [ text |-> normalized,
                              group |-> IF IsSome(acc.current_group)
                                        THEN Unwrap(acc.current_group)
                                        ELSE Ungrouped ]),
        !.from = Append(@, entry.line) ]

\* the body of the inner for loop, were a heading pushed as well
EntryStepPushAll(acc, entry, med) ==
    LET normalized == normalize_item_text(entry.text)
    IN  IF normalized = <<>> THEN acc
        ELSE IF is_heading(entry, med)
             THEN PushItem([acc EXCEPT !.current_group =
                                HeadingGroup(acc.current_group, normalized)],
                           entry, normalized)
             ELSE PushItem(acc, entry, normalized)

\* the body of the inner for loop of parse_grouped_items
EntryStep(acc, entry, med) ==
    LET normalized == normalize_item_text(entry.text)
    IN  IF normalized = <<>> THEN acc
        ELSE IF is_heading(entry, med)
             THEN [acc EXCEPT !.current_group =
                       HeadingGroup(acc.current_group, normalized)]
             ELSE PushItem(acc, entry, normalized)

\* the inner for loop over the first k entries of a column
RECURSIVE ColumnLoop(_, _, _, _)
ColumnLoop(acc, column, k, med) ==
    IF k = 0 THEN acc
    ELSE EntryStep(ColumnLoop(acc, column, k - 1, med), column[k], med)

\* the outer for loop over the first c columns
RECURSIVE ColumnsLoop(_, _, _, _)
ColumnsLoop(acc, cols, c, med) ==
    IF c = 0 THEN acc
    ELSE LET column == SortColumn(cols[c])
         IN  ColumnLoop(ColumnsLoop(acc, cols, c - 1, med),
                        column, Len(column), med)

\* parse_grouped_items: its locals median_height and columns, the items it
\* returns and the lines they came from
parse_grouped_items(lines, group) ==
    LET entries == Entries(lines)
        med == median(Heights(entries, Len(entries)))
        cols == split_into_columns(entries)
        start == [current_group |-> group, items |-> <<>>, from |-> <<>>]
        result == ColumnsLoop(start, cols, Len(cols), med)
    IN  IF entries = <<>>
        THEN [ median_height |-> Ratio(0, 1), columns |-> <<>>,
               items |-> Ok(<<>>), from |-> <<>> ]
        ELSE [ median_height |-> med, columns |-> cols,
               items |-> Ok(result.items), from |-> result.from ]

\* ----------------------------------------------- the pages that are parsed

\* the most lines on a page
MaxLines == 3

Kat == <<"K", "a", "t">>

Hond == <<"H", "o", "n", "d">>

Dieren == <<"D", "i", "e", "r", "e", "n">>

\* texts an OCR line may carry: capitalised single words, a word in small
\* letters, a heading ending in a colon, a bulleted entry with a period, a
\* capitalised phrase, a page number
LineTexts ==
    { Kat, Hond, Dieren,
      <<"k", "a", "t">>,
      <<"E", "t", "e", "n", ":">>,
      <<"-", " ", "a", ".", "b">>,
      <<"D", "e", " ", "d", "a", "g">>,
      <<"1", "2">> }

\* struct OcrBBox with its left edge at x and its top at y_top from the top
\* of the page (Vision measures y from the bottom); w is not read
BBox(x, y_top, h) == [x |-> x, y |-> 1000 - y_top - h, h |-> h]

\* where a line may stand: three places under each other, one close by to
\* the right, one farther right
LineBoxes ==
    { BBox(100, 100, 30), BBox(100, 200, 30), BBox(100, 0, 50),
      BBox(170, 150, 50), BBox(240, 50, 30) }

\* struct OcrLine; confidence is not read
OcrLines == [text : LineTexts, bbox : LineBoxes]

\* the pages: every sequence of at most MaxLines lines
Pages == UNION { [1..n -> OcrLines] : n \in 0..MaxLines }

\* db.last_group_for_chapter(chapter): no group yet, or the last one used
InitialGroups == { None, Some(<<"V", "o", "r", "i", "g">>) }

\* parse_grouped_items(&lines, initial_group)
ParseGroupedItems ==
    /\ parsed = None
    /\ \E done \in { parse_grouped_items(ocr_lines, initial_group) } :
           /\ median_height' = done.median_height
           /\ columns' = done.columns
           /\ parsed' = Some(done.items)
           /\ origins' = done.from
    /\ UNCHANGED <<ocr_lines, initial_group>>
    /\ UNCHANGED <<appVars, translation_rx, threads, now, drained, burst,
                   failed, suggested, session, entered, importVars,
                   callVars>>

\* an import preview is asked for: run_ocr has returned the lines of a page
ParseInit ==
    /\ mode = "Import"
    /\ translation_api = TRUE
    /\ FormNew
    /\ ImportIdle
    /\ CallIdle
    /\ ocr_lines \in Pages
    /\ initial_group \in InitialGroups
    /\ median_height = Ratio(0, 1)
    /\ columns = <<>>
    /\ parsed = None
    /\ origins = <<>>

ParseNext == ParseGroupedItems

ParseSpec == ParseInit /\ [][ParseNext]_vars

\* ------------------------------------------------- the page and its items

\* the items parse_grouped_items returned
ParsedItems == Unwrap(parsed).value

\* the entry built from line i of the page
EntryOfLine(i) == LineEntry(ocr_lines[i], i)

\* line i is an entry the inner loop classifies as a heading
IsHeadingLine(i) ==
    /\ KeepsLine(ocr_lines[i])
    /\ normalize_item_text(EntryOfLine(i).text) # <<>>
    /\ is_heading(EntryOfLine(i), median_height)

\* the name of the group the heading on line i sets
HeadingName(i) == normalize_heading(normalize_item_text(EntryOfLine(i).text))

\* the column that holds the entry of line i
ColumnOfLine(i) ==
    CHOOSE c \in 1..Len(columns) :
        \E k \in 1..Len(columns[c]) : columns[c][k].line = i

RECURSIVE SumX(_, _)
SumX(column, k) == IF k = 0 THEN 0 ELSE SumX(column, k - 1) + column[k].x

\* the centroid of column c: the mean of the x of its entries
Centroid(c) == Ratio(SumX(columns[c], Len(columns[c])), Len(columns[c]))

\* line j is read before line i: columns left to right, each column top to
\* bottom, entries at one height in the order the stable sorts leave them
ReadsBefore(j, i) ==
    LET a == EntryOfLine(j)
        b == EntryOfLine(i)
    IN  \/ ColumnOfLine(j) < ColumnOfLine(i)
        \/ /\ ColumnOfLine(j) = ColumnOfLine(i)
           /\ \/ a.y_top < b.y_top
              \/ a.y_top = b.y_top /\ a.x < b.x
              \/ a.y_top = b.y_top /\ a.x = b.x /\ j < i

\* the headings read before line i
PrecedingHeadings(i) ==
    { j \in 1..Len(ocr_lines) : IsHeadingLine(j) /\ ReadsBefore(j, i) }

\* the one of the lines hs that is read last
LastRead(hs) == CHOOSE j \in hs : \A h \in hs \ {j} : ReadsBefore(h, j)

\* ------------------------------------------------------------------ C17
\* C17: a line classified as a heading is never the origin of an item, and
\* every item is the normalized text of a line not classified as a heading.
C17_HeadingExclusivity ==
    IsSome(parsed) =>
        /\ \A i \in 1..Len(ocr_lines) :
               IsHeadingLine(i) => ~\E k \in 1..Len(origins) : origins[k] = i
        /\ Len(origins) = Len(ParsedItems)
        /\ \A k \in 1..Len(origins) :
               /\ KeepsLine(ocr_lines[origins[k]])
               /\ ~IsHeadingLine(origins[k])
               /\ ParsedItems[k].text
                      = normalize_item_text(ocr_lines[origins[k]].text)

\* a page with a heading and an item that carries the heading's group
C17_Witness ==
    /\ IsSome(parsed)
    /\ \E i \in 1..Len(ocr_lines) :
           /\ IsHeadingLine(i)
           /\ \E k \in 1..Len(origins) : ParsedItems[k].group = HeadingName(i)
           /\ \A k \in 1..Len(origins) : ParsedItems[k].text # HeadingName(i)

\* ------------------------------------------------------------------ C18
\* C18: of two items whose lines the clusterer put in one column, the one
\* with the smaller y_top comes first; every item of a column with a smaller
\* centroid comes before every item of a column with a larger centroid.
C18_ColumnReadingOrder ==
    IsSome(parsed) =>
        \A k1 \in 1..Len(origins) : \A k2 \in 1..Len(origins) :
            LET i1 == origins[k1]
                i2 == origins[k2]
            IN  /\ ( /\ ColumnOfLine(i1) = ColumnOfLine(i2)
                     /\ EntryOfLine(i1).y_top < EntryOfLine(i2).y_top )
                       => k1 < k2
                /\ RatioLess(Centroid(ColumnOfLine(i1)), Centroid(ColumnOfLine(i2)))
                       => k1 < k2

\* three items given right column first and bottom to top, returned left
\* column first and top to bottom
C18_Witness ==
    /\ IsSome(parsed)
    /\ origins = <<3, 2, 1>>
    /\ ColumnOfLine(3) = ColumnOfLine(2)
    /\ EntryOfLine(3).y_top < EntryOfLine(2).y_top
    /\ RatioLess(Centroid(ColumnOfLine(2)), Centroid(ColumnOfLine(1)))

\* ------------------------------------------------------------------ C19
\* the page of the scenario: Kat, Hond and Dieren at x = 0.1
Scenario ==
    << [text |-> Kat, bbox |-> BBox(100, 100, 30)],
       [text |-> Hond, bbox |-> BBox(100, 200, 30)],
       [text |-> Dieren, bbox |-> BBox(100, 0, 50)] >>

\* C19 as stated: the scenario yields the items (Kat, Dieren), (Hond, Dieren).
C19_ScenarioAsStated ==
    (ocr_lines = Scenario /\ initial_group = None /\ IsSome(parsed)) =>
        /\ IsHeadingLine(3)
        /\ ParsedItems = << [text |-> Kat, group |-> Dieren],
                            [text |-> Hond, group |-> Dieren] >>

\* C19: in the scenario the median height is 0.03, Kat, Hond and Dieren are
\* all three classified as headings, and no item is returned.
C19_ScenarioAllHeadings ==
    (ocr_lines = Scenario /\ initial_group = None /\ IsSome(parsed)) =>
        /\ median_height = Ratio(30, 1)
        /\ \A i \in 1..3 : IsHeadingLine(i)
        /\ Unwrap(parsed) = Ok(<<>>)
        /\ origins = <<>>

\* the scenario has been parsed
C19_Witness ==
    /\ ocr_lines = Scenario
    /\ initial_group = None
    /\ IsSome(parsed)
    /\ Unwrap(parsed).ok

\* ------------------------------------------------------------------ C20
\* C20: an item carries the name of the last heading read before it, columns
\* left to right and each column top to bottom, also when that heading is in
\* an earlier column; with no heading before it, it carries the initial
\* group; it carries "Ungrouped" only with no heading before it and no
\* initial group.
C20_GroupOfLastHeading ==
    IsSome(parsed) =>
        \A k \in 1..Len(origins) :
            LET group == ParsedItems[k].group
                headings == PrecedingHeadings(origins[k])
            IN  /\ group = IF headings # {}
                                THEN HeadingName(LastRead(headings))
                           ELSE IF IsSome(initial_group)
                                THEN Unwrap(initial_group)
                           ELSE Ungrouped
                /\ group = Ungrouped => headings = {} /\ initial_group = None

\* an item before any heading carries the initial group, and an item in a
\* later column carries the heading of the earlier column
C20_Witness ==
    /\ IsSome(parsed)
    /\ IsSome(initial_group)
    /\ Len(origins) = 2
    /\ ParsedItems[1].group = Unwrap(initial_group)
    /\ LET headings == PrecedingHeadings(origins[2])
       IN  /\ headings # {}
           /\ ColumnOfLine(LastRead(headings)) < ColumnOfLine(origins[2])
           /\ ParsedItems[2].group = HeadingName(LastRead(headings))

\* --------------------------------------------- normalize_item_text, called

\* the longest text given to normalize_item_text
MaxText == 5

\* the characters of the texts: the bullet's dash, the space, the period
\* and a letter
TextChars == {"-", " ", ".", "a"}

\* the texts: every string of at most MaxText characters
Texts == UNION { [1..n -> TextChars] : n \in 0..MaxText }

\* the text normalize_item_text is called with: the text given, then what
\* the call before returned
NextText == IF text_out = <<>> THEN text_in ELSE text_out[Len(text_out)]

\* normalize_item_text(text), for the text given and once more for its result
NormalizeItemText ==
    /\ Len(text_out) < 2
    /\ text_out' = Append(text_out, normalize_item_text(NextText))
    /\ UNCHANGED <<text_in, entry_in, median_in, heading_out>>
    /\ UNCHANGED <<appVars, translation_rx, threads, now, drained, burst,
                   failed, suggested, session, entered, importVars,
                   parseVars, restVars>>

NormalizeInit ==
    /\ mode = "Import"
    /\ translation_api = TRUE
    /\ FormNew
    /\ ImportIdle
    /\ ParseIdle
    /\ text_in \in Texts
    /\ text_out = <<>>
    /\ entry_in = None
    /\ median_in = Ratio(0, 1)
    /\ heading_out = None
    /\ RestIdle

NormalizeNext == NormalizeItemText

NormalizeSpec == NormalizeInit /\ [][NormalizeNext]_vars

\* a text is normalized: trimmed, without the bullet, without a period
IsNormalized(text) ==
    /\ Trim(text) = text
    /\ ~StartsWith(text, <<"-", " ">>)
    /\ ~Contains(text, ".")

\* ------------------------------------------------------------------ C22
\* C22: normalize_item_text returns a text that is trimmed, does not start
\* with "- " and holds no '.' as it was given.
C22_NormalizedUnchanged ==
    (text_out # <<>> /\ IsNormalized(text_in)) => text_out[1] = text_in

\* a normalized text with a dash and a space inside has been normalized
C22_Witness ==
    /\ text_out # <<>>
    /\ IsNormalized(text_in)
    /\ Contains(text_in, "-")
    /\ Contains(text_in, " ")
    /\ text_out[1] = text_in

\* ------------------------------------------------------------------ C29
\* C29 as stated: what normalize_item_text returns is returned unchanged
\* when normalized again, does not start with "- " and holds no '.'.
C29_FixedPoint ==
    Len(text_out) = 2 =>
        /\ text_out[2] = text_out[1]
        /\ ~StartsWith(text_out[1], <<"-", " ">>)
        /\ ~Contains(text_out[1], ".")

\* C29: what normalize_item_text returns is trimmed and holds no '.'; it is
\* returned unchanged when normalized again unless it starts with "- ",
\* which it does exactly when the text given, trimmed, carries a second "- "
\* after its first, with nothing but spaces between the two.
C29_FixedPointButSecondBullet ==
    /\ text_out # <<>> =>
           /\ Trim(text_out[1]) = text_out[1]
           /\ ~Contains(text_out[1], ".")
           /\ StartsWith(text_out[1], <<"-", " ">>) <=>
                  /\ StartsWith(Trim(text_in), <<"-", " ">>)
                  /\ StartsWith(TrimStart(StripPrefix(Trim(text_in), <<"-", " ">>)),
                                <<"-", " ">>)
    /\ Len(text_out) = 2 =>
           \/ StartsWith(text_out[1], <<"-", " ">>)
           \/ text_out[2] = text_out[1]

\* a bulleted text with a period was normalized twice, the second call
\* returning what the first did
C29_Witness ==
    /\ Len(text_out) = 2
    /\ StartsWith(text_in, <<"-", " ">>)
    /\ Contains(text_in, ".")
    /\ text_out[1] # text_in
    /\ text_out[2] = text_out[1]

\* ------------------------------------------------------ is_heading, called

\* texts of entries: filter_map leaves them trimmed and not empty
EntryTexts ==
    { Kat,
      <<"k", "a", "t">>,
      <<"K", "a", "T">>,
      <<"D", "e", " ", "d", "a", "g">>,
      <<"D", "e", " ", "D", "a", "g">>,
      <<"E", "t", "e", "n", ":">>,
      <<":", "a">>,
      <<"K", ",", "a">>,
      <<"K", "-", "a">>,
      <<"K", "(", "a">>,
      <<"K", "a", ")">> }

\* heights of entries, in thousandths of the page
EntryHeights == {0, 24, 30, 46, 50}

\* entries: LineEntry values; is_heading reads text and height
HeadingEntries ==
    { [text |-> t, x |-> 100, y_top |-> 0, height |-> h, line |-> 1] :
        t \in EntryTexts, h \in EntryHeights }

\* median heights: of no height but zero, of one height, of two heights
MedianHeights == { Ratio(0, 1), Ratio(30, 1), Ratio(30 + 50, 2), Ratio(50, 1) }

\* is_heading(&entry, median_height)
IsHeading ==
    /\ heading_out = None
    /\ heading_out' = Some(is_heading(Unwrap(entry_in), median_in))
    /\ UNCHANGED <<text_in, text_out, entry_in, median_in>>
    /\ UNCHANGED <<appVars, translation_rx, threads, now, drained, burst,
                   failed, suggested, session, entered, importVars,
                   parseVars, restVars>>

HeadingInit ==
    /\ mode = "Import"
    /\ translation_api = TRUE
    /\ FormNew
    /\ ImportIdle
    /\ ParseIdle
    /\ text_in = <<>>
    /\ text_out = <<>>
    /\ entry_in \in { Some(e) : e \in HeadingEntries }
    /\ median_in \in MedianHeights
    /\ heading_out = None
    /\ RestIdle

HeadingNext == IsHeading

HeadingSpec == HeadingInit /\ [][HeadingNext]_vars

\* ------------------------------------------------------------------ C24
\* C24: an entry is a heading exactly when its text is not empty, holds
\* none of , - ( ), starts with an uppercase character and has no other,
\* the median height is above 0, and its height is at least 1.15 times the
\* median if the text holds a space and at least 0.8 times if not.
C24_HeadingIff ==
    IsSome(heading_out) =>
        LET text == Unwrap(entry_in).text
            height == Unwrap(entry_in).height
        IN  Unwrap(heading_out) <=>
                /\ text # <<>>
                /\ \A i \in 1..Len(text) : text[i] \notin {",", "-", "(", ")"}
                /\ IsUppercase(text[1])
                /\ \A i \in 2..Len(text) : ~IsUppercase(text[i])
                /\ median_in.num > 0
                /\ IF \E i \in 1..Len(text) : text[i] = " "
                   THEN height * 100 * median_in.den >= 115 * median_in.num
                   ELSE height * 10 * median_in.den >= 8 * median_in.num

\* a capitalised phrase at exactly 1.15 times the median of two heights is a
\* heading
C24_Witness ==
    /\ heading_out = Some(TRUE)
    /\ Contains(Unwrap(entry_in).text, " ")
    /\ median_in = Ratio(30 + 50, 2)
    /\ Unwrap(entry_in).height = 46

\* ------------------------------------------------------------------ C25

\* the lines of the page that filter_map keeps
KeptLines == { i \in 1..Len(ocr_lines) : KeepsLine(ocr_lines[i]) }

\* entry a is placed before entry b: ascending x, and entries at one x in the
\* order of the page (the sort is stable)
PlacedBefore(a, b) == a.x < b.x \/ (a.x = b.x /\ a.line < b.line)

\* how many entries column c held when entry e was placed
CountBefore(c, e) ==
    Cardinality({ k \in 1..Len(columns[c]) : PlacedBefore(columns[c][k], e) })

\* how far entry e stands from the mean x of the entries column c held when e
\* was placed
DistanceBefore(e, c) ==
    Distance(e, [center |-> Ratio(SumX(columns[c], CountBefore(c, e)),
                                  CountBefore(c, e))])

\* C25: the columns are those of the greedy algorithm: every kept entry is in
\* one column; taking the entries in ascending x, an entry is in a column
\* that held entries before it only if the mean x of those is at most 0.08
\* away and no other column's mean was nearer, and it is the first of its
\* column only if every column's mean was more than 0.08 away; a column lists
\* its entries in that order; the columns stand in ascending order of the
\* mean x of all their entries.
C25_GreedyByCentroid ==
    parsed # None =>
        /\ \A i \in KeptLines :
               Cardinality({ ck \in (1..Len(columns)) \X (1..MaxLines) :
                               /\ ck[2] <= Len(columns[ck[1]])
                               /\ columns[ck[1]][ck[2]].line = i }) = 1
        /\ \A c \in 1..Len(columns) :
               /\ columns[c] # <<>>
               /\ \A k \in 1..Len(columns[c]) :
                      /\ columns[c][k].line \in 1..Len(ocr_lines)
                      /\ columns[c][k] = EntryOfLine(columns[c][k].line)
               /\ \A k \in 1..Len(columns[c]) : \A l \in (k + 1)..Len(columns[c]) :
                      PlacedBefore(columns[c][k], columns[c][l])
        /\ \A own \in 1..Len(columns) : \A k \in 1..Len(columns[own]) :
               LET e == columns[own][k]
                   open == { c \in 1..Len(columns) : CountBefore(c, e) > 0 }
               IN  IF own \in open
                   THEN /\ ~RatioLess(Ratio(threshold, 1), DistanceBefore(e, own))
                        /\ \A c \in open :
                               ~RatioLess(DistanceBefore(e, c), DistanceBefore(e, own))
                   ELSE \A c \in open :
                            RatioLess(Ratio(threshold, 1), DistanceBefore(e, c))
        /\ \A c \in 1..Len(columns) : \A d \in (c + 1)..Len(columns) :
               ~RatioLess(Centroid(d), Centroid(c))

\* three entries at 0.1, 0.17 and 0.24: the second joins the first, and the
\* third is farther than 0.08 from their mean and opens a column
C25_Witness ==
    /\ parsed # None
    /\ Len(columns) = 2
    /\ Len(columns[1]) = 2
    /\ columns[1][1].x = 100
    /\ columns[1][2].x = 170
    /\ columns[2][1].x = 240

\* ------------------------------------------------------------------ C23

\* the source field of the pending request no longer holds, trimmed, the
\* text the request took
PendingSourceChanged(e) ==
    /\ IsSome(e.before.pending_translation)
    /\ Trim(InputOf(e.before,
                    SourceField(Unwrap(e.before.pending_translation).direction)))
           # Unwrap(e.before.pending_translation).source_text

\* C23: a result received while the source field's trimmed text differs from
\* the source text of the pending request changes neither input and neither
\* last-translated record.
C23_ChangedSourceDiscards ==
    /\ \A i \in 1..Len(drained) :
           PendingSourceChanged(drained[i])
               => /\ TextsUnchanged(drained[i])
                  /\ LastTranslatedUnchanged(drained[i])
    /\ DrainedEndsHere

\* C23 witness: the successful result of the pending request was received
\* after the source text had changed, the target left alone.
C23_Witness ==
    \E i \in 1..Len(drained) :
        /\ Correlates(drained[i])
        /\ ~TargetEditedAfterStart(drained[i])
        /\ PendingSourceChanged(drained[i])
        /\ drained[i].result.result.ok
        /\ drained[i].branch = "source_changed"

\* ------------------------------------------------------------------ C28

\* C28: a step that switches the active field of the add-word form leaves
\* the in-flight flag, the pending request, the times of the last edits, the
\* last edited field, the last-translated records and both texts as they
\* are; the calls under way and the results waiting are kept, and so is
\* everything else a tick reads (message, view, key, clock): the next tick
\* receives, applies and dispatches what it would have without the step.
C28_TabOnlySwitchesField ==
    [][(mode = "AddWord" /\ add_field' # add_field) =>
           /\ UNCHANGED <<translation_in_flight, pending_translation,
                          last_edit_dutch_at, last_edit_english_at,
                          last_edit_field, last_translated_dutch_source,
                          last_translated_english_source, dutch_input,
                          english_input>>
           /\ UNCHANGED <<threads, translation_rx>>
           /\ UNCHANGED <<message, mode, translation_api, now>>]_vars

\* C28 witness: the English field is the active one, no key was ever typed
\* into it, and a tick has written the suggestion for the Dutch text into it.
C28_Witness ==
    /\ add_field = "English"
    /\ last_edit_field = Some("Dutch")
    /\ last_edit_english_at = None
    /\ \E i \in 1..Len(drained) :
           /\ drained[i].branch = "applied"
           /\ drained[i].result.direction = "DutchToEnglish"
           /\ english_input = drained[i].result.result.value

\* ------------------------------------------------------------------ C26

\* no two rows of the words table have the same text, letters of either case
\* taken as one, and the same language
NoDuplicates(rows) ==
    Cardinality({ <<ToLowercase(rows[r].text), rows[r].language>> :
                    r \in 1..Len(rows) }) = Len(rows)

\* C26: the words table, free of duplicates before the import, is free of
\* duplicates at every point of the import, however it ends.
C26_ImportAddsNoDuplicate == NoDuplicates(store)

\* C26 witness: the import met a text a second time in the chunk in which
\* it had inserted it, and skipped it.
C26_Witness ==
    \E p \in 1..Len(paired), q \in 1..Len(paired) :
        /\ p < q
        /\ q <= chunk_size
        /\ paired[p].outcome = "inserted"
        /\ paired[q].outcome = "skipped"
        /\ ToLowercase(items[paired[p].item].text)
               = ToLowercase(items[paired[q].item].text)

\* C26, the other case: the text was inserted in the first chunk and met
\* again, and skipped, in the second.
C26_WitnessLaterChunk ==
    \E p \in 1..Len(paired), q \in 1..Len(paired) :
        /\ paired[p].item <= chunk_size
        /\ paired[q].item > chunk_size
        /\ paired[p].outcome = "inserted"
        /\ paired[q].outcome = "skipped"
        /\ ToLowercase(items[paired[p].item].text)
               = ToLowercase(items[paired[q].item].text)

\* ------------------------------------------------------------------ C21

\* C21: whatever fails while an import is asked for or runs, run_app has not
\* returned, and an import that failed has left a message and the import
\* view.
C21_FailuresLeaveSession ==
    /\ session = None
    /\ Aborted => (IsSome(message) /\ mode = "Import")

\* ------------------------------------------------------------------ C27

Manual == <<"M", "a", "n", "u", "a", "l">>

Vocabulaire == <<"V", "o", "c", "a", "b", "u", "l", "a", "i", "r", "e">>

\* the most rows the words table holds before an Enter
MaxRows == 1

\* the words table when the form opens: empty, or holding the word A, Dutch
\* or English
SaveStores ==
    { <<>>,
      << WordRow(<<"A">>, <<"x">>, "Dutch", Manual, Vocabulaire) >>,
      << WordRow(<<"A">>, <<"x">>, "English", Manual, Vocabulaire) >> }

\* App::active_language
active_language == add_field

\* App::clear_add_inputs, after set_message("Word saved")
ClearAddInputs(app) ==
    [app EXCEPT !.dutch_input = <<>>,
                !.english_input = <<>>,
                !.message = Some("Word saved"),
                !.translation_in_flight = FALSE,
                !.pending_translation = None,
                !.last_edit_dutch_at = None,
                !.last_edit_english_at = None,
                !.last_translated_dutch_source = None,
                !.last_translated_english_source = None]

\* what db.word_exists(text, app.active_language()) gives the Enter arm
WordExistsAnswer(check, text) ==
    IF check = "error" THEN "error"
    ELSE IF word_exists(store, text, active_language) THEN "exists"
    ELSE "absent"

\* the words table after the Enter arm: save_word is reached when the message
\* is one of its two, and leaves its words row unless the first INSERT failed
RowsAfterEnter(outcome, save, text, translation) ==
    IF \/ outcome = "Word saved"
       \/ outcome = "Failed to save word" /\ save = "cards_error"
    THEN save_word(store, text, translation, active_language, Manual,
                   Vocabulaire)
    ELSE store

\* KeyCode::Enter, with the words table
KeyEnterStore ==
    \E check \in DbAnswers, save \in SaveWordEnds :
      \E text \in { Trim(active_input) }, translation \in { Trim(inactive_input) } :
        \E outcome \in { EnterOutcome(WordExistsAnswer(check, text),
                                      IF save = "ok" THEN "saved" ELSE "error") } :
          \E after \in { IF outcome = "Word saved"
                         THEN ClearAddInputs(App)
                         ELSE [App EXCEPT !.message = Some(outcome)] },
             rows \in { RowsAfterEnter(outcome, save, text, translation) } :
            /\ mode = "AddWord"
            /\ Len(store) <= MaxRows
            /\ store' = rows
            /\ dutch_input' = after.dutch_input
            /\ english_input' = after.english_input
            /\ message' = after.message
            /\ translation_in_flight' = after.translation_in_flight
            /\ pending_translation' = after.pending_translation
            /\ last_edit_dutch_at' = after.last_edit_dutch_at
            /\ last_edit_english_at' = after.last_edit_english_at
            /\ last_translated_dutch_source' = after.last_translated_dutch_source
            /\ last_translated_english_source' =
                   after.last_translated_english_source
            /\ last_edit_field' =
                   IF outcome = "Word saved" THEN None ELSE last_edit_field
            /\ failed' = IF outcome = "Word saved" THEN {} ELSE failed
            /\ suggested' = IF outcome = "Word saved" THEN {} ELSE suggested
            /\ burst' = None
            /\ drained' = <<>>
            /\ entered' = Some([ outcome |-> outcome,
                                 field |-> add_field,
                                 before |-> App,
                                 after |-> after,
                                 last_edit_field |-> last_edit_field',
                                 store_before |-> store,
                                 store_after |-> rows ])
            /\ UNCHANGED <<mode, add_field, translation_api, translation_rx,
                           threads, now, session>>
            /\ UNCHANGED <<items, index, translations, pos, inserted, skipped,
                           chapter, import_pc, returned, calls, paired>>
            /\ UNCHANGED <<parseVars, callVars>>

\* the form after a was typed into the Dutch field, the debounce interval
\* passed, a tick dispatched the request, and Tab was pressed
FormInFlight ==
    /\ dutch_input = <<"a">>
    /\ english_input = <<>>
    /\ add_field = "English"
    /\ message = None
    /\ translation_in_flight = TRUE
    /\ pending_translation =
           Some([ direction |-> "DutchToEnglish",
                  source_text |-> <<"a">>,
                  started_at |-> TRANSLATE_DEBOUNCE_MS ])
    /\ last_edit_field = Some("Dutch")
    /\ last_edit_dutch_at = Some(0)
    /\ last_edit_english_at = None
    /\ last_translated_dutch_source = None
    /\ last_translated_english_source = None
    /\ translation_rx = <<>>
    /\ threads = SetToBag({[direction |-> "DutchToEnglish",
                            source_text |-> <<"a">>]})
    /\ now = TRANSLATE_DEBOUNCE_MS
    /\ drained = <<>>
    /\ burst = None
    /\ failed = {}
    /\ suggested = {}
    /\ session = None
    /\ entered = None

\* the same form after the service answered and a tick wrote the suggestion
\* into the English field, Tab pressed after it
FormSuggested ==
    /\ dutch_input = <<"a">>
    /\ english_input = <<"a", "a">>
    /\ add_field = "English"
    /\ message = None
    /\ translation_in_flight = FALSE
    /\ pending_translation = None
    /\ last_edit_field = Some("Dutch")
    /\ last_edit_dutch_at = Some(0)
    /\ last_edit_english_at = None
    /\ last_translated_dutch_source = Some(<<"a">>)
    /\ last_translated_english_source = None
    /\ translation_rx = <<>>
    /\ threads = EmptyBag
    /\ now = TRANSLATE_DEBOUNCE_MS
    /\ drained = <<>>
    /\ burst = None
    /\ failed = {}
    /\ suggested = {"Dutch"}
    /\ session = None
    /\ entered = None

\* the add-word form is open: new, with a request in flight, or with a
\* suggestion applied; ticks are left out from here on
SaveInit ==
    /\ mode = "AddWord"
    /\ translation_api = TRUE
    /\ FormNew \/ FormInFlight \/ FormSuggested
    /\ items = <<>>
    /\ index = 0
    /\ translations = <<>>
    /\ pos = 0
    /\ inserted = 0
    /\ skipped = 0
    /\ store \in SaveStores
    /\ chapter = <<>>
    /\ import_pc = "idle"
    /\ returned = None
    /\ calls = <<>>
    /\ paired = <<>>
    /\ ParseIdle
    /\ CallIdle

SaveNext ==
    \/ KeyChar
    \/ KeyBackspace
    \/ KeyEsc
    \/ KeyTab
    \/ KeyEnterStore

SaveSpec == SaveInit /\ [][SaveNext]_vars

\* ------------------------------------------------------------------ C30

\* the active and the other input before the Enter, trimmed
EnteredText(e) ==
    Trim(IF e.field = "Dutch" THEN e.before.dutch_input ELSE e.before.english_input)

EnteredTranslation(e) ==
    Trim(IF e.field = "Dutch" THEN e.before.english_input ELSE e.before.dutch_input)

\* C30: an Enter changes the words table only when both inputs, trimmed, are
\* not empty and no row has the active text, in any case of letters, with the
\* active language; an Enter that saves appends one row, empties both inputs
\* and clears the engine's bookkeeping; every other Enter leaves the words
\* table and both inputs as they were.
C30_EnterSavesOrLeaves ==
    IsSome(entered) =>
        LET e == Unwrap(entered)
        IN  /\ e.store_after # e.store_before =>
                   /\ EnteredText(e) # <<>>
                   /\ EnteredTranslation(e) # <<>>
                   /\ ~\E r \in 1..Len(e.store_before) :
                          /\ ToLowercase(e.store_before[r].text)
                                 = ToLowercase(EnteredText(e))
                          /\ e.store_before[r].language = e.field
            /\ e.outcome = "Word saved" =>
                   /\ e.store_after =
                          Append(e.store_before,
                                 [ text |-> EnteredText(e),
                                   translation |-> EnteredTranslation(e),
                                   language |-> e.field,
                                   chapter |-> Manual,
                                   group |-> Vocabulaire ])
                   /\ e.after.dutch_input = <<>>
                   /\ e.after.english_input = <<>>
                   /\ ~e.after.translation_in_flight
                   /\ e.after.pending_translation = None
                   /\ e.last_edit_field = None
                   /\ e.after.last_edit_dutch_at = None
                   /\ e.after.last_edit_english_at = None
                   /\ e.after.last_translated_dutch_source = None
                   /\ e.after.last_translated_english_source = None
            /\ e.outcome # "Word saved" =>
                   /\ e.store_after = e.store_before
                   /\ e.after.dutch_input = e.before.dutch_input
                   /\ e.after.english_input = e.before.english_input

\* -------------------------------------------------- core: schedule_sm2

\* calls of schedule_sm2 made on one card
MaxReviews == 3

\* u8
Grades == 0..255

\* the values of now, in days
Nows == {0, 10}

\* i32::MAX, where `as i32` saturates
I32Max == 2147483647

Max(a, b) == IF a > b THEN a ELSE b

\* f64::round of num / den, neither negative: halves go away from zero
Round(num, den) == (2 * num + den) \div (2 * den)

\* default_new_card; ease is in hundredths, due_at in days
default_new_card(at) ==
    [due_at |-> at, interval_days |-> 0, ease |-> 250, reps |-> 0,
     lapses |-> 0]

\* ease_delta, in hundredths
EaseDelta(quality) == 10 - (5 - quality) * (8 + (5 - quality) * 2)

\* schedule_sm2 without grade.min(5)
schedule_sm2_unclamped(c, grade, at) ==
    LET ease == Max(c.ease + EaseDelta(grade), 130)
        reps == IF grade < 3 THEN 0 ELSE c.reps + 1
        interval_days ==
            IF grade < 3 THEN 1
            ELSE IF reps = 1 THEN 1
            ELSE IF reps = 2 THEN 6
            ELSE Min(Round(c.interval_days * ease, 100), I32Max)
        due_at == at + Max(interval_days, 1)
    IN  [card |-> [due_at |-> due_at, interval_days |-> interval_days,
                   ease |-> ease, reps |-> reps,
                   lapses |-> IF grade < 3 THEN c.lapses + 1 ELSE c.lapses],
         returned |-> due_at]

\* schedule_sm2 choosing the interval by the reps before the call
schedule_sm2_stale_reps(c, grade, at) ==
    LET clamped == Min(grade, 5)
        ease == Max(c.ease + EaseDelta(clamped), 130)
        reps == IF clamped < 3 THEN 0 ELSE c.reps + 1
        interval_days ==
            IF clamped < 3 THEN 1
            ELSE IF c.reps = 1 THEN 1
            ELSE IF c.reps = 2 THEN 6
            ELSE Min(Round(c.interval_days * ease, 100), I32Max)
        due_at == at + Max(interval_days, 1)
    IN  [card |-> [due_at |-> due_at, interval_days |-> interval_days,
                   ease |-> ease, reps |-> reps,
                   lapses |-> IF clamped < 3 THEN c.lapses + 1 ELSE c.lapses],
         returned |-> due_at]

\* schedule_sm2: the card after the call and the date returned
schedule_sm2(c, grade, at) ==
    LET clamped == Min(grade, 5)
        ease == Max(c.ease + EaseDelta(clamped), 130)
        reps == IF clamped < 3 THEN 0 ELSE c.reps + 1
        interval_days ==
            IF clamped < 3 THEN 1
            ELSE IF reps = 1 THEN 1
            ELSE IF reps = 2 THEN 6
            ELSE Min(Round(c.interval_days * ease, 100), I32Max)
        due_at == at + Max(interval_days, 1)
    IN  [card |-> [due_at |-> due_at, interval_days |-> interval_days,
                   ease |-> ease, reps |-> reps,
                   lapses |-> IF clamped < 3 THEN c.lapses + 1 ELSE c.lapses],
         returned |-> due_at]

\* a review: schedule_sm2 is called on the card with some grade and some now
ScheduleSm2 ==
    /\ reviews < MaxReviews
    /\ \E grade \in Grades : \E at \in Nows :
           \E done \in { schedule_sm2(card, grade, at) } :
               /\ card' = done.card
               /\ graded' = Some([before |-> card, grade |-> grade,
                                  now |-> at, returned |-> done.returned])
    /\ reviews' = reviews + 1
    /\ UNCHANGED <<text_in, text_out, entry_in, median_in, heading_out>>
    /\ UNCHANGED <<appVars, translation_rx, threads, now, drained, burst,
                   failed, suggested, session, entered, importVars,
                   parseVars, confirmVars, sessionVars, refreshVars>>

ScheduleInit ==
    /\ mode = "Import"
    /\ translation_api = TRUE
    /\ FormNew
    /\ ImportIdle
    /\ ParseIdle
    /\ text_in = <<>>
    /\ text_out = <<>>
    /\ entry_in = None
    /\ median_in = Ratio(0, 1)
    /\ heading_out = None
    /\ card \in { default_new_card(at) : at \in Nows }
    /\ reviews = 0
    /\ graded = None
    /\ ConfirmIdle
    /\ SessionIdle
    /\ RefreshIdle

ScheduleNext == ScheduleSm2

ScheduleSpec == ScheduleInit /\ [][ScheduleNext]_vars

\* ---------------------------------------- review list and Confirm view

\* the ids of the words there are
WordIds == {1, 2, 3}

\* review_group_key of a word: words 1 and 2 are of one chapter and group
review_group_key(id) == IF id = 3 THEN "Dieren / Vogels" ELSE "Dieren / Huis"

\* the key codes; k, j and the space bar do what Up, Down and Enter do
ConfirmKeys ==
    {"y", "Y", "n", "N", "Esc", "d", "D", "Up", "Down", "Enter", "q", "x"}

\* how delete_word and delete_all_words end: all three statements done, or
\* the named statement failed after those before it were committed
DeleteEnds == {"ok", "reviews_error", "cards_error", "words_error"}

DeleteWord(word_id) == [kind |-> "DeleteWord", word_id |-> word_id]

DeleteAll == [kind |-> "DeleteAll", word_id |-> 0]

\* Db::delete_word
delete_word(tables, word_id, ends) ==
    [reviews |-> IF ends = "reviews_error" THEN tables.reviews
                 ELSE tables.reviews \ {word_id},
     cards |-> IF ends \in {"reviews_error", "cards_error"} THEN tables.cards
               ELSE tables.cards \ {word_id},
     words |-> IF ends = "ok" THEN tables.words \ {word_id}
               ELSE tables.words]

\* Db::delete_all_words
delete_all_words(tables, ends) ==
    [reviews |-> IF ends = "reviews_error" THEN tables.reviews ELSE {},
     cards |-> IF ends \in {"reviews_error", "cards_error"} THEN tables.cards
               ELSE {},
     words |-> IF ends = "ok" THEN {} ELSE tables.words]

RECURSIVE InOrder(_)
\* the ids of a set in the order of ORDER BY chapter, group_name, created_at
InOrder(ids) ==
    IF ids = {} THEN <<>>
    ELSE LET first == CHOOSE i \in ids : \A j \in ids : i <= j
         IN  <<first>> \o InOrder(ids \ {first})

\* Db::load_all_words, when it succeeds
load_all_words(tables) == InOrder(tables.words)

RECURSIVE ItemsFrom(_, _, _)
\* review_list_items for the words from position i on
ItemsFrom(list, collapsed, i) ==
    IF i > Len(list) THEN <<>>
    ELSE LET key == review_group_key(list[i])
             group == IF i = 1 \/ review_group_key(list[i - 1]) # key
                      THEN <<[kind |-> "Group", key |-> key, index |-> 0]>>
                      ELSE <<>>
             word == IF key \in collapsed THEN <<>>
                     ELSE <<[kind |-> "Word", key |-> key, index |-> i]>>
         IN  group \o word \o ItemsFrom(list, collapsed, i + 1)

\* App::review_list_items
review_list_items(list, collapsed) == ItemsFrom(list, collapsed, 1)

\* App::review_list_move: the selection after it
review_list_move(list, selection, collapsed, delta) ==
    LET len == Len(review_list_items(list, collapsed))
        idx == selection + delta
    IN  IF len = 0 THEN selection
        ELSE IF idx < 0 THEN 0
        ELSE IF idx >= len THEN len - 1
        ELSE idx

\* App::current_review_word: the id of the word
current_review_word(list, selection, collapsed) ==
    LET list_items == review_list_items(list, collapsed)
    IN  IF selection + 1 > Len(list_items) THEN None
        ELSE IF list_items[selection + 1].kind = "Word"
             THEN Some(list[list_items[selection + 1].index])
             ELSE None

\* App::toggle_review_group: the selection and the collapsed keys after it
toggle_review_group(list, selection, collapsed) ==
    LET list_items == review_list_items(list, collapsed)
        same == [selection |-> selection, collapsed |-> collapsed]
    IN  IF selection + 1 > Len(list_items) THEN same
        ELSE IF list_items[selection + 1].kind # "Group" THEN same
        ELSE LET key == list_items[selection + 1].key
                 toggled == IF key \in collapsed THEN collapsed \ {key}
                            ELSE collapsed \cup {key}
                 new_items == review_list_items(list, toggled)
             IN  [selection |-> IF new_items = <<>> THEN 0
                                ELSE IF selection >= Len(new_items)
                                     THEN Len(new_items) - 1
                                     ELSE selection,
                  collapsed |-> toggled]

\* reload_review_list: the selection over the words just loaded
ReloadedSelection(list, selection, collapsed) ==
    LET list_items == review_list_items(list, collapsed)
    IN  IF list = <<>> THEN 0
        ELSE IF list_items = <<>> THEN 0
        ELSE IF selection >= Len(list_items) THEN Len(list_items) - 1
        ELSE selection

\* App::set_confirm keeping an action that is already pending
set_confirm_keeps_pending(action, text) ==
    [confirm_action |-> IF confirm_action # None THEN confirm_action
                        ELSE Some(action),
     confirm_message |-> Some(text),
     mode |-> "Confirm"]

\* App::set_confirm
set_confirm(action, text) ==
    [confirm_action |-> Some(action),
     confirm_message |-> Some(text),
     mode |-> "Confirm"]

\* everything the keys of the review list and the Confirm view leave alone
confirmFrame ==
    <<dutch_input, english_input, add_field, translation_api,
      translation_in_flight, pending_translation, last_edit_field,
      last_edit_dutch_at, last_edit_english_at, last_translated_dutch_source,
      last_translated_english_source, translation_rx, threads, now, drained,
      burst, failed, suggested, entered, importVars, parseVars, text_in,
      text_out, entry_in, median_in, heading_out, coreVars, sessionVars,
      refreshVars>>

\* the key and the state handle_key is called in
Press(key) ==
    pressed' = Some([key |-> key, mode |-> mode,
                     confirm_action |-> confirm_action,
                     requested |-> requested, db |-> db])

\* handle_key: Ctrl+C or Ctrl+Q ends run_app
CtrlC ==
    /\ session = None
    /\ Press("Ctrl+C")
    /\ session' = Some(Ok("()"))
    /\ UNCHANGED <<mode, message, db, review_list, review_list_selection,
                   review_list_collapsed, confirm_action, confirm_message,
                   requested>>
    /\ UNCHANGED confirmFrame

\* handle_key: Ctrl+A shows the add-word form
CtrlA ==
    /\ session = None
    /\ Press("Ctrl+A")
    /\ mode' = "AddWord"
    /\ requested' = None
    /\ UNCHANGED <<session, message, db, review_list, review_list_selection,
                   review_list_collapsed, confirm_action, confirm_message>>
    /\ UNCHANGED confirmFrame

\* handle_key: Ctrl+I or Ctrl+O shows the import view
CtrlI ==
    /\ session = None
    /\ Press("Ctrl+I")
    /\ mode' = "Import"
    /\ requested' = None
    /\ UNCHANGED <<session, message, db, review_list, review_list_selection,
                   review_list_collapsed, confirm_action, confirm_message>>
    /\ UNCHANGED confirmFrame

\* handle_key: Ctrl+V loads the review list
CtrlV ==
    /\ session = None
    /\ Press("Ctrl+V")
    /\ requested' = None
    /\ \E load \in DbAnswers :
           IF load = "ok"
           THEN /\ review_list' = load_all_words(db)
                /\ review_list_selection' = 0
                /\ mode' = "ReviewList"
                /\ UNCHANGED message
           ELSE /\ message' = Some("Failed to load review list")
                /\ mode' = "Message"
                /\ UNCHANGED <<review_list, review_list_selection>>
    /\ UNCHANGED <<session, db, review_list_collapsed, confirm_action,
                   confirm_message>>
    /\ UNCHANGED confirmFrame

\* handle_key in Mode::Message: any key shows the add-word form
KeyInMessage ==
    /\ session = None
    /\ mode = "Message"
    /\ \E key \in ConfirmKeys : Press(key)
    /\ mode' = "AddWord"
    /\ requested' = None
    /\ UNCHANGED <<session, message, db, review_list, review_list_selection,
                   review_list_collapsed, confirm_action, confirm_message>>
    /\ UNCHANGED confirmFrame

\* handle_review_list_key: the fields of the app after the key
ReviewListKeyOutcome(key) ==
    LET same == [mode |-> mode, selection |-> review_list_selection,
                 collapsed |-> review_list_collapsed,
                 confirm_action |-> confirm_action,
                 confirm_message |-> confirm_message, requested |-> None]
        word == current_review_word(review_list, review_list_selection,
                                    review_list_collapsed)
        toggled == toggle_review_group(review_list, review_list_selection,
                                       review_list_collapsed)
        confirm(action, text) ==
            LET set == set_confirm(action, text)
            IN  [same EXCEPT !.mode = set.mode,
                             !.confirm_action = set.confirm_action,
                             !.confirm_message = set.confirm_message,
                             !.requested = Some(action)]
    IN  CASE key \in {"q", "Esc"} -> [same EXCEPT !.mode = "AddWord"]
          [] key = "Up" ->
                 [same EXCEPT !.selection =
                      review_list_move(review_list, review_list_selection,
                                       review_list_collapsed, 0 - 1)]
          [] key = "Down" ->
                 [same EXCEPT !.selection =
                      review_list_move(review_list, review_list_selection,
                                       review_list_collapsed, 1)]
          [] key = "Enter" ->
                 [same EXCEPT !.selection = toggled.selection,
                              !.collapsed = toggled.collapsed]
          [] key = "d" ->
                 IF IsSome(word)
                 THEN confirm(DeleteWord(Unwrap(word)), <<"Delete", Unwrap(word)>>)
                 ELSE same
          [] key = "D" ->
                 IF review_list # <<>>
                 THEN confirm(DeleteAll, <<"Delete ALL">>)
                 ELSE same
          [] OTHER -> same

\* handle_key in Mode::ReviewList
handle_review_list_key ==
    /\ session = None
    /\ mode = "ReviewList"
    /\ \E key \in ConfirmKeys :
           /\ Press(key)
           /\ \E after \in { ReviewListKeyOutcome(key) } :
                  /\ mode' = after.mode
                  /\ review_list_selection' = after.selection
                  /\ review_list_collapsed' = after.collapsed
                  /\ confirm_action' = after.confirm_action
                  /\ confirm_message' = after.confirm_message
                  /\ requested' = after.requested
    /\ UNCHANGED <<session, message, db, review_list>>
    /\ UNCHANGED confirmFrame

\* handle_confirm_key on y or Y
ConfirmYes ==
    IF IsSome(confirm_action)
    THEN /\ \E ends \in DeleteEnds : \E load \in DbAnswers :
                \E after \in
                    { IF Unwrap(confirm_action).kind = "DeleteWord"
                      THEN delete_word(db, Unwrap(confirm_action).word_id,
                                       ends)
                      ELSE delete_all_words(db, ends) } :
                    /\ db' = after
                    /\ IF ends # "ok"
                       THEN /\ message' = Some("Delete failed")
                            /\ mode' = "Message"
                            /\ UNCHANGED <<review_list, review_list_selection>>
                       ELSE IF load = "error"
                       THEN /\ message' = Some("Failed to load review list")
                            /\ mode' = "Message"
                            /\ UNCHANGED <<review_list, review_list_selection>>
                       ELSE /\ review_list' = load_all_words(after)
                            /\ review_list_selection' =
                                   ReloadedSelection(load_all_words(after),
                                                     review_list_selection,
                                                     review_list_collapsed)
                            /\ mode' = "ReviewList"
                            /\ UNCHANGED message
         /\ confirm_action' = None
         /\ confirm_message' = None
         /\ requested' = None
    ELSE /\ mode' = "ReviewList"
         /\ requested' = None
         /\ UNCHANGED <<db, message, review_list, review_list_selection,
                        confirm_action, confirm_message>>

\* handle_key in Mode::Confirm
handle_confirm_key ==
    /\ session = None
    /\ mode = "Confirm"
    /\ \E key \in ConfirmKeys :
           /\ Press(key)
           /\ CASE key \in {"y", "Y"} -> ConfirmYes
                [] key \in {"n", "N", "Esc"} ->
                       /\ confirm_action' = None
                       /\ confirm_message' = None
                       /\ mode' = "ReviewList"
                       /\ requested' = None
                       /\ UNCHANGED <<db, message, review_list,
                                      review_list_selection>>
                [] OTHER ->
                       UNCHANGED <<db, message, mode, review_list,
                                   review_list_selection, confirm_action,
                                   confirm_message, requested>>
    /\ UNCHANGED <<session, review_list_collapsed>>
    /\ UNCHANGED confirmFrame

\* the app is started on a database that holds some words
ConfirmInit ==
    /\ mode = "AddWord"
    /\ translation_api = TRUE
    /\ FormNew
    /\ ImportIdle
    /\ ParseIdle
    /\ text_in = <<>>
    /\ text_out = <<>>
    /\ entry_in = None
    /\ median_in = Ratio(0, 1)
    /\ heading_out = None
    /\ CoreIdle
    /\ SessionIdle
    /\ RefreshIdle
    /\ \E held \in SUBSET WordIds : \E seen \in {{}, held} :
           db = [reviews |-> seen, cards |-> held, words |-> held]
    /\ review_list = <<>>
    /\ review_list_selection = 0
    /\ review_list_collapsed = {}
    /\ confirm_action = None
    /\ confirm_message = None
    /\ requested = None
    /\ pressed = None

ConfirmNext ==
    \/ CtrlC
    \/ CtrlA
    \/ CtrlI
    \/ CtrlV
    \/ KeyInMessage
    \/ handle_review_list_key
    \/ handle_confirm_key

ConfirmSpec == ConfirmInit /\ [][ConfirmNext]_vars

\* ------------------------------------------------ gui: review session

\* ReviewState.session_limit, as run sets it
session_limit == 10

\* the ids of the cards of the local store; card 11 has no word
CardIds == 1..11

\* command slots: the commands that can be running at once
Procs == {1, 2}

\* calls of start_session
MaxSessions == 1

\* calls of grade_card
MaxGradings == 1

\* statements the database fails
MaxFailures == 1

\* the days the app may be running on
Days == {0, 1}

\* the grades the user gives
GuiGrades == {2, 5}

\* the ids grade_card is called with; no card has id 12
GradedIds == {2, 12}

\* the sets of cards that are due on day 0
DueSets == {{1, 2, 11}, CardIds}

\* a slot with no command in it
Idle == [pc |-> "idle", card_id |-> 0, grade |-> 0, now |-> 0, ids |-> <<>>,
         row |-> <<>>]

\* what a command returned
Returned(cmd, card_id, ok) == Some([cmd |-> cmd, card_id |-> card_id, ok |-> ok])

\* a row of cards
CardRow(c, seen_count) ==
    [due_at |-> c.due_at, interval_days |-> c.interval_days, ease |-> c.ease,
     reps |-> c.reps, lapses |-> c.lapses, seen_count |-> seen_count]

\* the elements of a sequence
Elements(list) == { list[i] : i \in 1..Len(list) }

\* Iterator::take
Take(list, n) == SubSeq(list, 1, Min(n, Len(list)))

RECURSIVE OrderByDue(_, _)
\* SELECT id FROM cards WHERE due_at <= now ORDER BY due_at, over the ids given
OrderByDue(cards, ids) ==
    IF ids = {} THEN <<>>
    ELSE LET first == CHOOSE i \in ids : \A j \in ids :
                          \/ cards[i].due_at < cards[j].due_at
                          \/ (cards[i].due_at = cards[j].due_at /\ i <= j)
         IN  <<first>> \o OrderByDue(cards, ids \ {first})

\* the ids start_session reads
DueIds(cards, at) ==
    OrderByDue(cards, { i \in DOMAIN cards : cards[i].due_at <= at })

\* the orders ids.shuffle leaves, of which two are taken: moved on by one,
\* and reversed
Shuffles(ids) ==
    { [i \in 1..Len(ids) |-> ids[(i % Len(ids)) + 1]],
      [i \in 1..Len(ids) |-> ids[Len(ids) + 1 - i]] }

\* queue.last() read without removing it
QueuePeek(list) ==
    [card_id |-> list[Len(list)], queue |-> list]

\* Vec::pop on a queue that is not empty
QueuePop(list) ==
    [card_id |-> list[Len(list)], queue |-> SubSeq(list, 1, Len(list) - 1)]

\* Vec::retain(|id| id != card_id)
Retain(list, card_id) == SelectSeq(list, LAMBDA id : id # card_id)

\* everything the commands of the review session leave alone
sessionFrame ==
    <<appVars, translation_rx, threads, now, drained, burst, failed,
      suggested, session, entered, importVars, parseVars, text_in, text_out,
      entry_in, median_in, heading_out, coreVars, confirmVars, refreshVars>>

\* slot p is free and no slot before it is: where the next command starts
FreeSlot(p) ==
    /\ inflight[p].pc = "idle"
    /\ \A q \in Procs : q < p => inflight[q].pc # "idle"

\* no command is between the query and the lock of start_session
NoSessionStarting == \A q \in Procs : inflight[q].pc # "start_queried"

\* how the database may answer the next statement
SessionAnswers == IF failures < MaxFailures THEN DbAnswers ELSE {"ok"}

\* the statement was answered
Answered(answer) ==
    failures' = IF answer = "error" THEN failures + 1 ELSE failures

\* a command returns from slot p
Finish(p, cmd, card_id, ok) ==
    /\ inflight' = [inflight EXCEPT ![p] = Idle]
    /\ finished' = Returned(cmd, card_id, ok)

\* start_session up to the shuffle; it runs while no other command does
StartSessionQuery(p) ==
    /\ FreeSlot(p)
    /\ \A q \in Procs : inflight[q].pc = "idle"
    /\ sessions < MaxSessions
    /\ sessions' = sessions + 1
    /\ fresh' = FALSE
    /\ \E answer \in SessionAnswers : Answered(answer) /\
           IF answer = "error"
           THEN Finish(p, "start_session", 0, FALSE)
           ELSE /\ \E ids \in Shuffles(DueIds(local.cards, clock)) :
                       inflight' = [inflight EXCEPT ![p] =
                           [Idle EXCEPT !.pc = "start_queried", !.ids = ids,
                                        !.now = clock]]
                /\ UNCHANGED finished
    /\ UNCHANGED <<local, queue, clock, served, gradings>>
    /\ UNCHANGED sessionFrame

\* start_session from the lock on
StartSessionSet(p) ==
    /\ inflight[p].pc = "start_queried"
    /\ queue' = Take(inflight[p].ids, session_limit)
    /\ served' = <<>>
    /\ fresh' = TRUE
    /\ Finish(p, "start_session", 0, TRUE)
    /\ UNCHANGED <<local, clock, sessions, gradings, failures>>
    /\ UNCHANGED sessionFrame

\* next_due_card up to drop(guard)
NextDueCardPop(p) ==
    /\ FreeSlot(p)
    /\ NoSessionStarting
    /\ sessions > 0
    /\ fresh' = FALSE
    /\ \E answer \in SessionAnswers : Answered(answer) /\
           IF answer = "error"
           THEN /\ Finish(p, "next_due_card", 0, FALSE)
                /\ UNCHANGED queue
           ELSE IF queue = <<>>
           THEN /\ Finish(p, "next_due_card", 0, TRUE)
                /\ UNCHANGED queue
           ELSE \E popped \in { QueuePop(queue) } :
                    /\ queue' = popped.queue
                    /\ inflight' = [inflight EXCEPT ![p] =
                           [Idle EXCEPT !.pc = "next_popped",
                                        !.card_id = popped.card_id]]
                    /\ UNCHANGED finished
    /\ UNCHANGED <<local, clock, served, sessions, gradings>>
    /\ UNCHANGED sessionFrame

\* next_due_card from the SELECT on
NextDueCardReturn(p) ==
    /\ inflight[p].pc = "next_popped"
    /\ NoSessionStarting
    /\ fresh' = FALSE
    /\ \E answer \in SessionAnswers : Answered(answer) /\
           IF answer = "error"
           THEN /\ Finish(p, "next_due_card", 0, FALSE)
                /\ UNCHANGED served
           ELSE IF /\ inflight[p].card_id \in DOMAIN local.cards
                   /\ inflight[p].card_id \in DOMAIN local.words
           THEN /\ Finish(p, "next_due_card", inflight[p].card_id, TRUE)
                /\ served' = Append(served, inflight[p].card_id)
           ELSE /\ Finish(p, "next_due_card", 0, TRUE)
                /\ UNCHANGED served
    /\ UNCHANGED <<local, queue, clock, sessions, gradings>>
    /\ UNCHANGED sessionFrame

\* grade_card up to the SELECT
GradeCardSelect(p) ==
    /\ FreeSlot(p)
    /\ NoSessionStarting
    /\ gradings < MaxGradings
    /\ gradings' = gradings + 1
    /\ fresh' = FALSE
    /\ \E card_id \in GradedIds : \E grade \in GuiGrades :
           \E answer \in SessionAnswers : Answered(answer) /\
               IF answer = "error"
               THEN Finish(p, "grade_card", card_id, FALSE)
               ELSE IF card_id \notin DOMAIN local.cards
               THEN Finish(p, "grade_card", card_id, TRUE)
               ELSE /\ inflight' = [inflight EXCEPT ![p] =
                           [Idle EXCEPT !.pc = "grade_selected",
                                        !.card_id = card_id,
                                        !.grade = grade,
                                        !.now = clock,
                                        !.row = Some(local.cards[card_id])]]
                    /\ UNCHANGED finished
    /\ UNCHANGED <<local, queue, clock, served, sessions>>
    /\ UNCHANGED sessionFrame

\* grade_card: schedule_sm2 and the UPDATE of the card
GradeCardUpdate(p) ==
    /\ inflight[p].pc = "grade_selected"
    /\ NoSessionStarting
    /\ fresh' = FALSE
    /\ \E answer \in SessionAnswers : Answered(answer) /\
           IF answer = "error"
           THEN /\ Finish(p, "grade_card", inflight[p].card_id, FALSE)
                /\ UNCHANGED local
           ELSE /\ local' = [local EXCEPT !.cards[inflight[p].card_id] =
                       CardRow(schedule_sm2(Unwrap(inflight[p].row),
                                            inflight[p].grade,
                                            inflight[p].now).card,
                               @.seen_count)]
                /\ inflight' = [inflight EXCEPT ![p].pc = "grade_updated"]
                /\ UNCHANGED finished
    /\ UNCHANGED <<queue, clock, served, sessions, gradings>>
    /\ UNCHANGED sessionFrame

\* grade_card: the INSERT of the review
GradeCardReview(p) ==
    /\ inflight[p].pc = "grade_updated"
    /\ NoSessionStarting
    /\ fresh' = FALSE
    /\ \E answer \in SessionAnswers : Answered(answer) /\
           IF answer = "error"
           THEN /\ Finish(p, "grade_card", inflight[p].card_id, FALSE)
                /\ UNCHANGED local
           ELSE /\ local' = [local EXCEPT !.reviews =
                       Append(@, [card_id |-> inflight[p].card_id,
                                  grade |-> inflight[p].grade,
                                  reviewed_at |-> inflight[p].now])]
                /\ inflight' = [inflight EXCEPT ![p].pc = "grade_reviewed"]
                /\ UNCHANGED finished
    /\ UNCHANGED <<queue, clock, served, sessions, gradings>>
    /\ UNCHANGED sessionFrame

\* grade_card: the UPDATE of seen_count
GradeCardSeen(p) ==
    /\ inflight[p].pc = "grade_reviewed"
    /\ NoSessionStarting
    /\ fresh' = FALSE
    /\ \E answer \in SessionAnswers : Answered(answer) /\
           IF answer = "error"
           THEN /\ Finish(p, "grade_card", inflight[p].card_id, FALSE)
                /\ UNCHANGED local
           ELSE /\ local' = [local EXCEPT
                       !.cards[inflight[p].card_id].seen_count = @ + 1]
                /\ inflight' = [inflight EXCEPT ![p].pc = "grade_counted"]
                /\ UNCHANGED finished
    /\ UNCHANGED <<queue, clock, served, sessions, gradings>>
    /\ UNCHANGED sessionFrame

\* grade_card: the card is taken out of the queue
GradeCardRetain(p) ==
    /\ inflight[p].pc = "grade_counted"
    /\ NoSessionStarting
    /\ fresh' = FALSE
    /\ queue' = Retain(queue, inflight[p].card_id)
    /\ Finish(p, "grade_card", inflight[p].card_id, TRUE)
    /\ UNCHANGED <<local, clock, served, sessions, gradings, failures>>
    /\ UNCHANGED sessionFrame

\* the app is running on a local store of eleven cards
SessionInit ==
    /\ mode = "Import"
    /\ translation_api = TRUE
    /\ FormNew
    /\ ImportIdle
    /\ ParseIdle
    /\ text_in = <<>>
    /\ text_out = <<>>
    /\ entry_in = None
    /\ median_in = Ratio(0, 1)
    /\ heading_out = None
    /\ CoreIdle
    /\ ConfirmIdle
    /\ RefreshIdle
    /\ \E due \in DueSets :
           local =
               [words |-> [id \in CardIds \ {11} |-> [text |-> id]],
                cards |-> [id \in CardIds |->
                              IF id \in due
                              THEN CardRow(default_new_card(0), 0)
                              ELSE CardRow([due_at |-> 2, interval_days |-> 1,
                                            ease |-> 250, reps |-> 1,
                                            lapses |-> 0], 1)],
                reviews |-> <<>>]
    /\ queue = <<>>
    /\ clock \in Days
    /\ inflight = [p \in Procs |-> Idle]
    /\ served = <<>>
    /\ fresh = FALSE
    /\ finished = None
    /\ sessions = 0
    /\ gradings = 0
    /\ failures = 0

SessionNext ==
    \/ \E p \in Procs : StartSessionQuery(p)
    \/ \E p \in Procs : StartSessionSet(p)
    \/ \E p \in Procs : NextDueCardPop(p)
    \/ \E p \in Procs : NextDueCardReturn(p)
    \/ \E p \in Procs : GradeCardSelect(p)
    \/ \E p \in Procs : GradeCardUpdate(p)
    \/ \E p \in Procs : GradeCardReview(p)
    \/ \E p \in Procs : GradeCardSeen(p)
    \/ \E p \in Procs : GradeCardRetain(p)

SessionSpec == SessionInit /\ [][SessionNext]_vars

\* ------------------------------------------- gui: refresh of the store

\* where the rows to load come from: the snapshot passed to
\* refresh_from_data_api, or the tables refresh_from_postgres reads
Sources == {"data_api", "postgres"}

\* the tables of the rows, in the order they are loaded
TableNames == <<"words", "cards", "reviews">>

\* the rows a snapshot can hold: two rows of words share an id
SnapshotWords ==
    { [id |-> 1, text |-> "kat"], [id |-> 1, text |-> "hond"],
      [id |-> 2, text |-> "hond"] }

SnapshotCards ==
    { [id |-> 1, word_id |-> 1, due_at |-> 0, interval_days |-> 0,
       ease |-> 250, reps |-> 0, lapses |-> 0],
      [id |-> 2, word_id |-> 2, due_at |-> 6, interval_days |-> 6,
       ease |-> 260, reps |-> 2, lapses |-> 0] }

SnapshotReviews ==
    { [id |-> 1, card_id |-> 2, grade |-> 5, reviewed_at |-> 0] }

\* the sequences of at most two rows
RowLists(rows) ==
    {<<>>} \cup { <<r>> : r \in rows } \cup { <<r, t>> : r \in rows, t \in rows }

Snapshots ==
    { [words |-> w, cards |-> c, reviews |-> r] :
          w \in RowLists(SnapshotWords), c \in RowLists(SnapshotCards),
          r \in RowLists(SnapshotReviews) }

\* a table with no rows
NoRows == [id \in {} |-> 0]

\* the row of the local table that INSERT makes of a row of the snapshot
LocalRow(name, row) ==
    IF name = "words" THEN [text |-> row.text]
    ELSE IF name = "cards" THEN CardRow(row, 0)
    ELSE [card_id |-> row.card_id, grade |-> row.grade,
          reviewed_at |-> row.reviewed_at]

\* INSERT INTO a table with a primary key on id: the table, or nothing when
\* the id is taken
Insert(table, id, row) ==
    IF id \in DOMAIN table THEN None
    ELSE Some([i \in DOMAIN table \cup {id} |->
                   IF i = id THEN row ELSE table[i]])

\* a transaction dropped without commit leaving its writes in place
RollbackKeeps(committed, working) == working

\* rusqlite::Transaction dropped without commit: the tables are as they
\* were at conn.transaction()
Rollback(committed, working) == committed

\* the step after a table is loaded
StepAfter(name, source) ==
    IF name = "words"
    THEN IF source = "postgres" THEN "select_cards" ELSE "cards"
    ELSE IF name = "cards"
    THEN IF source = "postgres" THEN "select_reviews" ELSE "reviews"
    ELSE "commit"

\* everything a refresh leaves alone
refreshFrame ==
    <<appVars, translation_rx, threads, now, drained, burst, failed,
      suggested, session, entered, importVars, parseVars, text_in, text_out,
      entry_in, median_in, heading_out, coreVars, confirmVars, clock,
      inflight, served, fresh, sessions, gradings, snapshot>>

\* the refresh returns an error: `?` drops the transaction
RefreshFails ==
    /\ local' = IF IsSome(tx) THEN Rollback(local, Unwrap(tx)) ELSE local
    /\ tx' = None
    /\ at_call' = [at_call EXCEPT !.failed_at = refresh_pc.step]
    /\ refresh_pc' = [refresh_pc EXCEPT !.step = "returned"]
    /\ finished' = Returned("refresh", 0, FALSE)
    /\ UNCHANGED queue

\* refresh_from_data_api and refresh_from_postgres up to conn.transaction()
RefreshBegin ==
    /\ refresh_pc.step = "idle"
    /\ \E source \in Sources : \E answer \in SessionAnswers :
           Answered(answer) /\
           IF answer = "error"
           THEN /\ at_call' = [local |-> local, queue |-> queue,
                               failed_at |-> "idle"]
                /\ refresh_pc' = [step |-> "returned", index |-> 1,
                                  source |-> source]
                /\ finished' = Returned("refresh", 0, FALSE)
                /\ UNCHANGED tx
           ELSE /\ at_call' = [local |-> local, queue |-> queue,
                               failed_at |-> "none"]
                /\ refresh_pc' = [step |-> "clear", index |-> 1,
                                  source |-> source]
                /\ tx' = Some(local)
                /\ UNCHANGED finished
    /\ UNCHANGED <<local, queue>>
    /\ UNCHANGED refreshFrame

\* the three DELETEs of execute_batch
RefreshClear ==
    /\ refresh_pc.step = "clear"
    /\ \E answer \in SessionAnswers :
           Answered(answer) /\
           IF answer = "error"
           THEN RefreshFails
           ELSE /\ tx' = Some([words |-> NoRows, cards |-> NoRows,
                               reviews |-> NoRows])
                /\ refresh_pc' =
                       [refresh_pc EXCEPT !.step =
                            IF refresh_pc.source = "postgres"
                            THEN "select_words" ELSE "words"]
                /\ UNCHANGED <<local, queue, finished, at_call>>
    /\ UNCHANGED refreshFrame

\* refresh_from_postgres: client.query for the table to load next
RefreshSelect ==
    /\ refresh_pc.step \in {"select_words", "select_cards", "select_reviews"}
    /\ \E answer \in SessionAnswers :
           Answered(answer) /\
           IF answer = "error"
           THEN RefreshFails
           ELSE /\ refresh_pc' =
                       [refresh_pc EXCEPT
                            !.step = CASE @ = "select_words" -> "words"
                                       [] @ = "select_cards" -> "cards"
                                       [] OTHER -> "reviews",
                            !.index = 1]
                /\ UNCHANGED <<local, queue, finished, at_call, tx>>
    /\ UNCHANGED refreshFrame

\* one turn of a for loop over the rows of a table: the INSERT
RefreshInsert ==
    /\ refresh_pc.step \in {"words", "cards", "reviews"}
    /\ LET name == refresh_pc.step
           rows == snapshot[name]
       IN  IF refresh_pc.index > Len(rows)
           THEN /\ refresh_pc' =
                       [refresh_pc EXCEPT
                            !.step = StepAfter(name, refresh_pc.source),
                            !.index = 1]
                /\ UNCHANGED <<local, queue, finished, at_call, tx, failures>>
           ELSE \E answer \in SessionAnswers :
                    \E after \in
                        { Insert(Unwrap(tx)[name], rows[refresh_pc.index].id,
                                 LocalRow(name, rows[refresh_pc.index])) } :
                        Answered(answer) /\
                        IF answer = "error" \/ after = None
                        THEN RefreshFails
                        ELSE /\ tx' = Some([Unwrap(tx) EXCEPT
                                                ![name] = Unwrap(after)])
                             /\ refresh_pc' =
                                    [refresh_pc EXCEPT !.index = @ + 1]
                             /\ UNCHANGED <<local, queue, finished, at_call>>
    /\ UNCHANGED refreshFrame

\* tx.commit()
RefreshCommit ==
    /\ refresh_pc.step = "commit"
    /\ \E answer \in SessionAnswers :
           Answered(answer) /\
           IF answer = "error"
           THEN RefreshFails
           ELSE /\ local' = Unwrap(tx)
                /\ tx' = None
                /\ refresh_pc' = [refresh_pc EXCEPT !.step = "unlock"]
                /\ UNCHANGED <<queue, finished, at_call>>
    /\ UNCHANGED refreshFrame

\* guard.queue.clear() and the return
RefreshClearQueue ==
    /\ refresh_pc.step = "unlock"
    /\ queue' = <<>>
    /\ refresh_pc' = [refresh_pc EXCEPT !.step = "returned"]
    /\ finished' = Returned("refresh", 0, TRUE)
    /\ UNCHANGED <<local, tx, at_call, failures>>
    /\ UNCHANGED refreshFrame

\* the local store holds two words and their cards, or none, and a session
\* may have queued the cards; a refresh is about to be called
RefreshInit ==
    /\ mode = "Import"
    /\ translation_api = TRUE
    /\ FormNew
    /\ ImportIdle
    /\ ParseIdle
    /\ text_in = <<>>
    /\ text_out = <<>>
    /\ entry_in = None
    /\ median_in = Ratio(0, 1)
    /\ heading_out = None
    /\ CoreIdle
    /\ ConfirmIdle
    /\ \E held \in {{}, {1, 2}} :
           /\ local =
                  [words |-> [id \in held |-> [text |-> "oud"]],
                   cards |-> [id \in held |->
                                 CardRow(default_new_card(0), 3)],
                   reviews |-> [id \in held |->
                                   [card_id |-> id, grade |-> 3,
                                    reviewed_at |-> 0]]]
           /\ queue \in {<<>>, InOrder(held)}
    /\ clock = 0
    /\ inflight = [p \in Procs |-> Idle]
    /\ served = <<>>
    /\ fresh = FALSE
    /\ finished = None
    /\ sessions = 0
    /\ gradings = 0
    /\ failures = 0
    /\ tx = None
    /\ snapshot \in Snapshots
    /\ refresh_pc = [step |-> "idle", index |-> 1, source |-> "data_api"]
    /\ at_call = None

RefreshNext ==
    \/ RefreshBegin
    \/ RefreshClear
    \/ RefreshSelect
    \/ RefreshInsert
    \/ RefreshCommit
    \/ RefreshClearQueue

RefreshSpec == RefreshInit /\ [][RefreshNext]_vars

\* ------------------------------------------------------------------ C31

\* the table holds the rows of the list, each once, and no other row
HoldsExactly(name, table, rows) ==
    /\ Cardinality(DOMAIN table) = Len(rows)
    /\ DOMAIN table = { rows[i].id : i \in 1..Len(rows) }
    /\ \A i \in 1..Len(rows) : table[rows[i].id] = LocalRow(name, rows[i])

\* C31: when a refresh has returned Ok the words, cards and reviews tables
\* hold exactly the rows of the snapshot and the queue is empty; when it has
\* returned an error the tables and the queue are what they were when it
\* was called.
C31_RefreshAllOrNothing ==
    refresh_pc.step = "returned" =>
        IF Unwrap(finished).ok
        THEN /\ HoldsExactly("words", local.words, snapshot.words)
             /\ HoldsExactly("cards", local.cards, snapshot.cards)
             /\ HoldsExactly("reviews", local.reviews, snapshot.reviews)
             /\ queue = <<>>
        ELSE /\ local = at_call.local
             /\ queue = at_call.queue

\* C31 witness: a refresh failed at the INSERT of a card, after the tables
\* were cleared and the words loaded, and the two old words and the queue
\* are still there.
C31_Witness ==
    /\ refresh_pc.step = "returned"
    /\ ~Unwrap(finished).ok
    /\ at_call.failed_at = "cards"
    /\ Len(snapshot.words) = 2
    /\ DOMAIN local.words = {1, 2}
    /\ local.words[1].text = "oud"
    /\ queue = <<1, 2>>

\* C31 witness: a refresh replaced two old words by the one of the snapshot
\* and emptied the queue.
C31_WitnessLoaded ==
    /\ refresh_pc.step = "returned"
    /\ Unwrap(finished).ok
    /\ at_call.queue = <<1, 2>>
    /\ DOMAIN at_call.local.words = {1, 2}
    /\ DOMAIN local.words = {2}
    /\ DOMAIN local.cards = {1, 2}
    /\ queue = <<>>

\* C31 witness: a snapshot with two words of one id was turned down.
C31_WitnessDuplicate ==
    /\ refresh_pc.step = "returned"
    /\ ~Unwrap(finished).ok
    /\ failures = 0
    /\ at_call.failed_at = "words"
    /\ DOMAIN local.words = {1, 2}

\* ------------------------------------------------------------------ C32

\* C32: when start_session has just returned the queue holds at most
\* session_limit ids, no id twice, each of a card that is due; the cards
\* served since then are all different, whatever the order in which the
\* steps of next_due_card and grade_card calls are taken; the card a
\* next_due_card call returned is not in the queue; and the card a
\* grade_card call that succeeded was given is not in the queue.
C32_QueueServesOnce ==
    /\ fresh =>
           /\ Len(queue) <= session_limit
           /\ Cardinality(Elements(queue)) = Len(queue)
           /\ \A i \in 1..Len(queue) : local.cards[queue[i]].due_at <= clock
    /\ Cardinality(Elements(served)) = Len(served)
    /\ IsSome(finished) =>
           LET call == Unwrap(finished) IN
           /\ (call.cmd = "next_due_card" /\ call.ok /\ call.card_id # 0) =>
                  call.card_id \notin Elements(queue)
           /\ (call.cmd = "grade_card" /\ call.ok) =>
                  call.card_id \notin Elements(queue)

\* C32 witness: of eleven due cards ten were queued; one has been served,
\* and a next_due_card call and a grade_card call are both under way.
C32_Witness ==
    /\ sessions = 1
    /\ Len(served) = 1
    /\ Len(queue) >= 7
    /\ inflight[1].pc = "next_popped"
    /\ inflight[2].pc = "grade_updated"
    /\ inflight[2].card_id \in Elements(queue)

\* C32 witness: start_session has just returned with a full queue.
C32_WitnessFull ==
    /\ fresh
    /\ Len(queue) = session_limit
    /\ \E id \in CardIds : /\ id \notin Elements(queue)
                           /\ local.cards[id].due_at <= clock

\* C32 witness: a grade_card call took a card out of the queue before it
\* was served.
C32_WitnessGraded ==
    /\ IsSome(finished)
    /\ Unwrap(finished).cmd = "grade_card"
    /\ Unwrap(finished).ok
    /\ Unwrap(finished).card_id = 2
    /\ 2 \notin Elements(served)
    /\ Len(queue) + Len(served) = session_limit - 1
    /\ \A p \in Procs : inflight[p].pc = "idle"

\* ------------------------------------------------------------------ C33

\* the rows of the tables that the action names
Named(action, tables) ==
    IF action.kind = "DeleteWord" THEN {action.word_id}
    ELSE tables.words \cup tables.cards \cup tables.reviews

\* C33: the tables change only by a y or Y pressed in the Confirm view while
\* the pending action is the delete request that opened this view, and then
\* only rows that action names are removed; n, N or Esc in the Confirm view
\* clears the pending action and leaves the tables alone; and whenever the
\* Confirm view is shown the pending action is the request it was opened
\* for, never one left over from a view that was left by a shortcut.
C33_DeleteOnlyConfirmed ==
    /\ mode = "Confirm" => (IsSome(requested) /\ confirm_action = requested)
    /\ IsSome(pressed) =>
           LET key == Unwrap(pressed) IN
           /\ db # key.db =>
                  /\ key.key \in {"y", "Y"}
                  /\ key.mode = "Confirm"
                  /\ IsSome(key.requested)
                  /\ key.confirm_action = key.requested
                  /\ db.words \subseteq key.db.words
                  /\ db.cards \subseteq key.db.cards
                  /\ db.reviews \subseteq key.db.reviews
                  /\ (key.db.words \ db.words) \cup (key.db.cards \ db.cards)
                         \cup (key.db.reviews \ db.reviews)
                     \subseteq Named(Unwrap(key.requested), key.db)
           /\ (key.mode = "Confirm" /\ key.key \in {"n", "N", "Esc"}) =>
                  /\ confirm_action = None
                  /\ db = key.db

\* C33 witness: y in the Confirm view opened for word 2 removed word 2 and
\* nothing else.
C33_Witness ==
    /\ IsSome(pressed)
    /\ Unwrap(pressed).key = "y"
    /\ Unwrap(pressed).mode = "Confirm"
    /\ Unwrap(pressed).requested = Some(DeleteWord(2))
    /\ Unwrap(pressed).db.words = WordIds
    /\ db.words = {1, 3}
    /\ mode = "ReviewList"

\* C33 witness: the Confirm view opened for word 1 was left by Ctrl+A with
\* the action pending; a later request to delete all is what the view shows.
C33_WitnessLeftPending ==
    /\ IsSome(pressed)
    /\ Unwrap(pressed).key = "D"
    /\ Unwrap(pressed).confirm_action = Some(DeleteWord(1))
    /\ Unwrap(pressed).requested = None
    /\ mode = "Confirm"
    /\ confirm_action = Some(DeleteAll)

\* C33 witness: n in the Confirm view cleared the pending action.
C33_WitnessDeclined ==
    /\ IsSome(pressed)
    /\ Unwrap(pressed).key = "n"
    /\ Unwrap(pressed).mode = "Confirm"
    /\ Unwrap(pressed).confirm_action = Some(DeleteAll)
    /\ confirm_action = None
    /\ db.words = WordIds

\* ------------------------------------------------------------------ C34

\* C34: the ease of a card that began as a new card is never below 1.3, and
\* a call with a grade above 5 leaves the card, and returns the date, that
\* the call with grade 5 would have.
C34_EaseFloorAndClamp ==
    /\ card.ease >= 130
    /\ (IsSome(graded) /\ Unwrap(graded).grade > 5) =>
           /\ card = schedule_sm2(Unwrap(graded).before, 5,
                                  Unwrap(graded).now).card
           /\ Unwrap(graded).returned =
                  schedule_sm2(Unwrap(graded).before, 5,
                               Unwrap(graded).now).returned

\* C34 witness: a card brought to the floor by low grades is given a grade
\* above 5 and its ease rises by 0.1.
C34_Witness ==
    /\ IsSome(graded)
    /\ Unwrap(graded).grade > 5
    /\ Unwrap(graded).before.ease = 130
    /\ Unwrap(graded).before.lapses >= 2
    /\ card.ease = 140

\* ------------------------------------------------------------------ C35

\* C35: a grade below 3 sets reps to 0 and interval_days to 1 and adds one
\* lapse; a grade of 3 or more adds one to reps, keeps lapses and sets
\* interval_days to 1 when reps becomes 1 and to 6 when it becomes 2; after
\* every call interval_days is at least 1 and due_at, which is returned, is
\* at least one day after now.
C35_RepsLapsesInterval ==
    IsSome(graded) =>
        LET call == Unwrap(graded) IN
        /\ call.grade < 3 =>
               /\ card.reps = 0
               /\ card.interval_days = 1
               /\ card.lapses = call.before.lapses + 1
        /\ call.grade >= 3 =>
               /\ card.reps = call.before.reps + 1
               /\ card.lapses = call.before.lapses
               /\ (card.reps = 1 => card.interval_days = 1)
               /\ (card.reps = 2 => card.interval_days = 6)
        /\ card.interval_days >= 1
        /\ card.due_at >= call.now + 1
        /\ call.returned = card.due_at

\* C35 witness: after a lapse, the second success in a row sets the interval
\* to 6 days.
C35_Witness ==
    /\ IsSome(graded)
    /\ Unwrap(graded).grade >= 3
    /\ Unwrap(graded).before.reps = 1
    /\ card.reps = 2
    /\ card.interval_days = 6
    /\ card.lapses = 1

\* C35 witness: a third success in a row multiplies the interval by the ease.
C35_WitnessThird ==
    /\ IsSome(graded)
    /\ card.reps = 3
    /\ card.interval_days = 16
    /\ card.ease = 270

\* ------------------------------------------------------------------ C36

\* the places of the entries of the columns: column and position in it
Places ==
    { ck \in (1..Len(columns)) \X (1..MaxLines) : ck[2] <= Len(columns[ck[1]]) }

\* C36: every kept entry is in exactly one column; a column lists entries in
\* ascending x; no entry of another column stands, in ascending x, between
\* two entries of a column; an entry that is not the first of its column was
\* added to the column opened last before it; and the columns are returned in
\* the order they were opened.
C36_ColumnsAreRuns ==
    parsed # None =>
        /\ \A i \in KeptLines :
               Cardinality({ ck \in Places : columns[ck[1]][ck[2]].line = i }) = 1
        /\ \A ck \in Places : columns[ck[1]][ck[2]].line \in KeptLines
        /\ \A ck \in Places : \A l \in (ck[2] + 1)..Len(columns[ck[1]]) :
               PlacedBefore(columns[ck[1]][ck[2]], columns[ck[1]][l])
        /\ \A ck \in Places : \A dm \in Places :
               dm[1] # ck[1] =>
                   ~(/\ PlacedBefore(columns[ck[1]][1], columns[dm[1]][dm[2]])
                     /\ PlacedBefore(columns[dm[1]][dm[2]], columns[ck[1]][ck[2]]))
        /\ \A ck \in Places : \A d \in 1..Len(columns) :
               (ck[2] > 1 /\ d # ck[1]) =>
                   ~(/\ PlacedBefore(columns[ck[1]][1], columns[d][1])
                     /\ PlacedBefore(columns[d][1], columns[ck[1]][ck[2]]))
        /\ \A c \in 1..Len(columns) : \A d \in (c + 1)..Len(columns) :
               PlacedBefore(columns[c][1], columns[d][1])

\* C36 witness: the page lists an entry at 0.24 first; the columns are the
\* entry at 0.1, then the two at 0.24.
C36_Witness ==
    /\ parsed # None
    /\ Len(columns) = 2
    /\ Len(columns[1]) = 1
    /\ Len(columns[2]) = 2
    /\ columns[1][1].x = 100
    /\ columns[2][1].line = 1
    /\ columns[2][2].x = 240

====
